---------------------------- MODULE Spec2Model ----------------------------
(***************************************************************************)
(* A model of the marketing-analytics scripts of McSquaredTeam1:           *)
(*   - URL_Crawler/crawler.py    ContentCrawler (page -> ContentDocument)  *)
(*   - URL_Crawler/store.py      ContentStore (documents, keywords, file)  *)
(*   - AICrawlerLogging/ingest.py   bot attribution of server-log rows     *)
(*   - URL_Crawler/demo_competitive_gap_analysis.py   gap analysis         *)
(*                                                                         *)
(* Strings the code inspects (URLs, page text, user agents) are sequences  *)
(* of one-character strings, so that lower(), split(), strip() and the     *)
(* substring tests are computed, not assumed.                              *)
(***************************************************************************)
EXTENDS Integers, Sequences, FiniteSets, TLC

VARIABLES
    now,            \* the wall clock read by datetime.utcnow()
    doc,            \* the document returned by the last ContentCrawler.crawl
    fetched,        \* the page that crawl fetched for doc
    documents,      \* ContentStore.documents: doc_id -> ContentDocument
    file,           \* the JSON file at ContentStore.storage_path
    ai_bots,        \* the ai_bots table: rows [bot_id, name, pattern]
    ingest_pc,      \* where the ingest script is: seed, load, rows, done
    patterns,       \* ingest_server_logs: the loaded (bot_id, name, regex) list
    batch,          \* ingest_server_logs: its batch parameter
    to_insert,      \* ingest_server_logs: the tuples not yet flushed
    crawler_logs,   \* the crawler_logs table: one sequence of tuples per INSERT
    bot_csv,        \* the bot table ensure_ai_bots_seed was last called with
    log_csv,        \* the server log: whether it exists, the rows iterated so far
    total,          \* ingest_server_logs: its counter of rows
    entity_documents,   \* CompetitiveGapAnalyzer.entity_documents
    gap_call,       \* the arguments of the last perform_gap_analysis call
    report,         \* what that call returned
    simple_gaps,    \* the last detect_content_gaps_simple call and its result
    opened_at,      \* the clock when the ContentStore object was constructed
    loop,           \* the crawl loop of a demo: its list, position and output
    stores,         \* the ContentStore objects two processes hold on one path
    disk,           \* the file at that path: whether it exists, what it holds
    prepared,       \* what the integrated demo's run loaded before its loop
    keyword_gaps,   \* the last get_keyword_gaps call and what it returned
    classified,     \* the last classify_and_prioritize_gaps call and its result
    agent           \* the AIExtractionAgent: its results and the call under way

storeVars == <<now, doc, fetched, documents, file>>
ingestVars == <<ai_bots, ingest_pc, patterns, batch, to_insert, crawler_logs,
               bot_csv, log_csv, total>>
gapVars == <<entity_documents, gap_call, report, simple_gaps>>

shareVars == <<stores, disk, prepared, keyword_gaps>>

agentVars == <<classified, agent>>

demoVars == <<opened_at, loop, shareVars, agentVars>>

vars == <<storeVars, ingestVars, gapVars, demoVars>>

\* ------------------------------------------------------------------ bounds

\* The clock stops advancing at MaxClock.
MaxClock == 2
\* URLs of the crawler specification are a host followed by at most
\* MaxSegs path segments.
MaxSegs == 2
\* ingest_server_logs reads at most MaxRows rows, in batches of at most
\* MaxBatch tuples.
MaxRows == 2
MaxBatch == 2
\* perform_gap_analysis is called with at most MaxCompetitors competitors
\* and with top_gaps in 1..MaxTopGaps or its default.
MaxCompetitors == 2
MaxTopGaps == 3
\* a crawl loop is given a list of at most MaxUrls URLs
MaxUrls == 2

\* ----------------------------------------------------------------- strings

None == "None"

UpperChars == <<"A","B","C","D","E","F","G","H","I","J","K","L","M","N","O","P","Q","R","S","T","U","V","W","X","Y","Z">>
LowerChars == <<"a","b","c","d","e","f","g","h","i","j","k","l","m","n","o","p","q","r","s","t","u","v","w","x","y","z">>

\* the lower-case letter of each upper-case letter
LowerOf ==
    [c \in {UpperChars[i] : i \in 1..Len(UpperChars)} |->
        LowerChars[CHOOSE i \in 1..Len(UpperChars) : UpperChars[i] = c]]

\* str.lower() on one character
LowerChar(c) == IF c \in DOMAIN LowerOf THEN LowerOf[c] ELSE c

\* the sequence f itself, with its elements evaluated once
AsSeq(f) == SubSeq(f, 1, Len(f))

\* str.lower()
Lower(s) == AsSeq([i \in 1..Len(s) |-> LowerChar(s[i])])

\* sub in s
Contains(s, sub) ==
    \E i \in 0..(Len(s) - Len(sub)) : SubSeq(s, i + 1, i + Len(sub)) = sub

\* sep.join(parts)
RECURSIVE Join(_, _)
Join(parts, sep) ==
    IF Len(parts) = 0 THEN <<>>
    ELSE IF Len(parts) = 1 THEN parts[1]
    ELSE parts[1] \o sep \o Join(Tail(parts), sep)

SP == <<" ">>

\* str.split(): the maximal runs of non-space characters
RECURSIVE SplitFrom(_, _, _)
SplitFrom(s, i, cur) ==
    IF i > Len(s) THEN (IF cur = <<>> THEN <<>> ELSE <<cur>>)
    ELSE IF s[i] = " "
         THEN (IF cur = <<>> THEN <<>> ELSE <<cur>>) \o SplitFrom(s, i + 1, <<>>)
         ELSE SplitFrom(s, i + 1, Append(cur, s[i]))

Split(s) == SplitFrom(s, 1, <<>>)

\* str.strip(chars): drop leading and trailing characters of the set
RECURSIVE LStrip(_, _)
LStrip(s, chars) ==
    IF s # <<>> /\ Head(s) \in chars THEN LStrip(Tail(s), chars) ELSE s

RECURSIVE RStrip(_, _)
RStrip(s, chars) ==
    IF s # <<>> /\ s[Len(s)] \in chars
    THEN RStrip(SubSeq(s, 1, Len(s) - 1), chars) ELSE s

Strip(s, chars) == RStrip(LStrip(s, chars), chars)

SeqToSet(s) == {s[i] : i \in 1..Len(s)}

\* ------------------------------------------------------- pages (inputs)

\* A fetched page is the sequence of its elements in document order; an
\* element is [tag, attr, text, json]: attr is the type/property attribute,
\* text the element's string, json what json.loads makes of a script's
\* string (valid is FALSE when it raises JSONDecodeError).
InvalidJson == [valid |-> FALSE, isDict |-> FALSE, type |-> None, mainEntity |-> <<>>]
NoJson == InvalidJson
LdJson == "application/ld+json"

El(tag, text) == [tag |-> tag, attr |-> None, text |-> text, json |-> NoJson]
Script(attr, text, json) == [tag |-> "script", attr |-> attr, text |-> text, json |-> json]
Meta(property, content) == [tag |-> "meta", attr |-> property, text |-> content, json |-> NoJson]

FaqJson ==
    [valid |-> TRUE, isDict |-> TRUE, type |-> "FAQPage",
     mainEntity |-> << [name |-> <<"Q","1">>, acceptedAnswer |-> <<"A","1">>],
                       [name |-> <<"Q","2">>, acceptedAnswer |-> <<"A","2">>] >>]
ArticleJson == [valid |-> TRUE, isDict |-> TRUE, type |-> "Article", mainEntity |-> <<>>]
ListJson == [valid |-> TRUE, isDict |-> FALSE, type |-> None, mainEntity |-> <<>>]

\* <script type="application/ld+json"> holding a valid FAQPage object
PageFaq ==
    << El("title", <<"H","e","l","p">>), El("h1", <<"Q","u","e","s","t","i","o","n","s">>), El("p", <<"A","s","k"," "," ","u","s">>),
       Script(LdJson, <<"F","A","Q","P","a","g","e">>, FaqJson) >>
\* an Article block and a plain script, with navigation chrome
PageArticle ==
    << El("title", <<" ","N","e","w","s"," ">>), El("nav", <<"H","o","m","e">>), El("header", <<"T","o","p">>),
       El("h2", <<"S","e","c","o","n","d">>), El("h1", <<"F","i","r","s","t">>), El("a", <<"m","o","r","e">>), El("img", <<>>),
       Script(LdJson, <<"A","r","t","i","c","l","e">>, ArticleJson), Script(None, <<"v","a","r">>, NoJson),
       El("footer", <<"B","y","e">>) >>
\* a JSON-LD block that does not parse, and one that is a list
PageBadJson ==
    << Meta("og:title", <<"O","g">>), El("p", <<"t","e","x","t">>),
       Script(LdJson, <<"{","F","A","Q","P","a","g","e">>, InvalidJson), Script(LdJson, <<"[","]">>, ListJson) >>
\* no script at all
PagePlain == << El("title", <<"P","l","a","i","n">>), El("p", <<"j","u","s","t"," ","t","e","x","t">>), El("style", <<"c","s","s">>) >>

CrawlPages == {PageFaq, PageArticle, PageBadJson, PagePlain}

\* --------------------------------------------------------------- crawler

Removed == {"script", "style", "nav", "footer", "header"}
HeadingLevels == <<"h1", "h2", "h3", "h4", "h5", "h6">>

\* for script in soup([...]): script.decompose()  -- the soup is changed in
\* place, so every later extraction of crawl() sees the soup without them
Decompose(soup) == SelectSeq(soup, LAMBDA e : e.tag \notin Removed)

\* the text nodes of soup.get_text(), one per line of the page
TextNodes(soup) == SelectSeq(soup, LAMBDA e : e.tag \notin {"meta", "img"})

\* line.strip(), line.split("  "), phrase.strip(), drop the empty chunks and
\* join them with one space: a line's runs of spaces become one space
Chunks(line) == Join(Split(line), SP)

\* ContentCrawler._extract_clean_text, on the decomposed soup
CleanTextOf(soup) ==
    LET nodes == TextNodes(soup)
        lines == AsSeq([i \in 1..Len(nodes) |-> Chunks(nodes[i].text)])
    IN  Join(SelectSeq(lines, LAMBDA l : l # <<>>), SP)

\* ContentCrawler._extract_headings: level by level, document order within
RECURSIVE HeadingsFrom(_, _)
HeadingsFrom(soup, k) ==
    IF k > Len(HeadingLevels) THEN <<>>
    ELSE LET hs == SelectSeq(soup, LAMBDA e : e.tag = HeadingLevels[k])
         IN  AsSeq([i \in 1..Len(hs) |->
                 [level |-> HeadingLevels[k], text |-> Strip(hs[i].text, {" "})]])
             \o HeadingsFrom(soup, k + 1)

ExtractHeadings(soup) == HeadingsFrom(soup, 1)

\* ContentCrawler._extract_title
ExtractTitle(soup) ==
    LET titles == SelectSeq(soup, LAMBDA e : e.tag = "title")
        og == SelectSeq(soup, LAMBDA e : e.tag = "meta" /\ e.attr = "og:title")
    IN  IF titles # <<>> THEN Strip(titles[1].text, {" "})
        ELSE IF og # <<>> THEN og[1].text
        ELSE <<>>

\* the FAQ entries of one parsed JSON-LD block
FaqItemsOf(data) ==
    IF data.isDict /\ data.type = "FAQPage"
    THEN AsSeq([i \in 1..Len(data.mainEntity) |->
             [question |-> data.mainEntity[i].name,
              answer |-> data.mainEntity[i].acceptedAnswer]])
    ELSE <<>>

RECURSIVE StructuredFrom(_, _)
\* the loop of _extract_structured_data over the JSON-LD scripts
StructuredFrom(scripts, acc) ==
    IF scripts = <<>> THEN acc
    ELSE LET data == Head(scripts).json
         IN  IF ~data.valid THEN StructuredFrom(Tail(scripts), acc)
             ELSE StructuredFrom(Tail(scripts),
                    [schema_type |-> IF data.isDict /\ data.type # None
                                     THEN data.type ELSE acc.schema_type,
                     faq_items |-> acc.faq_items \o FaqItemsOf(data),
                     raw_json_ld |-> Append(acc.raw_json_ld, data)])

\* ContentCrawler._extract_structured_data
ExtractStructuredData(soup) ==
    StructuredFrom(SelectSeq(soup, LAMBDA e : e.tag = "script" /\ e.attr = LdJson),
                   [schema_type |-> None, faq_items |-> <<>>, raw_json_ld |-> <<>>])

\* ContentCrawler._calculate_metrics
CalculateMetrics(soup, clean_text, structured) ==
    [word_count |-> Len(Split(clean_text)),
     heading_count |-> Len(SelectSeq(soup, LAMBDA e : e.tag \in SeqToSet(HeadingLevels))),
     image_count |-> Len(SelectSeq(soup, LAMBDA e : e.tag = "img")),
     link_count |-> Len(SelectSeq(soup, LAMBDA e : e.tag = "a")),
     has_faq |-> Len(structured.faq_items) > 0,
     has_schema |-> Len(structured.raw_json_ld) > 0]

\* soup.find('script', type='application/ld+json', string=lambda s: s and 'FAQPage' in s)
HasFaqScript(soup) ==
    \E i \in 1..Len(soup) :
        /\ soup[i].tag = "script" /\ soup[i].attr = LdJson
        /\ Contains(soup[i].text, <<"F","A","Q","P","a","g","e">>)

\* the mutant of DetectContentType: the product test before the blog test
\* and no lower-casing of the URL
DetectContentTypeUnordered(soup, url) ==
    IF Contains(url, <<"/","f","a","q">>) \/ HasFaqScript(soup) THEN "faq"
    ELSE IF Contains(url, <<"/","p","r","o","d","u","c","t">>) \/ Contains(url, <<"/","s","h","o","p">>) THEN "product_page"
    ELSE IF Contains(url, <<"/","b","l","o","g">>) \/ Contains(url, <<"/","a","r","t","i","c","l","e">>) THEN "blog_post"
    ELSE IF Contains(url, <<"/","d","o","c","s">>) \/ Contains(url, <<"/","d","o","c","u","m","e","n","t","a","t","i","o","n">>) THEN "documentation"
    ELSE "other"

\* ContentCrawler._detect_content_type
DetectContentType(soup, url) ==
    LET url_lower == Lower(url)
    IN  IF Contains(url_lower, <<"/","f","a","q">>) \/ HasFaqScript(soup) THEN "faq"
        ELSE IF Contains(url_lower, <<"/","b","l","o","g">>) \/ Contains(url_lower, <<"/","a","r","t","i","c","l","e">>)
             THEN "blog_post"
        ELSE IF Contains(url_lower, <<"/","p","r","o","d","u","c","t">>) \/ Contains(url_lower, <<"/","s","h","o","p">>)
             THEN "product_page"
        ELSE IF Contains(url_lower, <<"/","d","o","c","s">>) \/ Contains(url_lower, <<"/","d","o","c","u","m","e","n","t","a","t","i","o","n">>)
             THEN "documentation"
        ELSE "other"

\* ContentDocument.keywords is None until add_document sets the list
NoKeywords == [is_none |-> TRUE, list |-> <<>>]

\* hashlib.md5(url).hexdigest(): a digest of the URL and of nothing else,
\* taken as free of collisions on the URLs of the model
GenerateDocId(url) == <<"md5", url>>

\* ContentCrawler.crawl after a successful fetch (status 200), at clock
\* value t.  The soup handed to every step after _extract_clean_text is the
\* decomposed one.  ContentDocument.__post_init__ stamps first_seen and
\* last_updated.  Of the document's fields, raw_html, domain and the
\* fetch's own timing and hash (crawled_at, response_time_ms, content_hash)
\* are left out: nothing modelled here reads them.
Crawl(url, entity_type, entity_name, page, t) ==
    LET soup == Decompose(page)
        clean_text == CleanTextOf(soup)
        structured == ExtractStructuredData(soup)
    IN  [doc_id |-> GenerateDocId(url),
         url |-> url,
         entity_type |-> entity_type,
         entity_name |-> entity_name,
         title |-> ExtractTitle(soup),
         content_type |-> DetectContentType(soup, url),
         clean_text |-> clean_text,
         headings |-> ExtractHeadings(soup),
         structured_data |-> structured,
         metrics |-> CalculateMetrics(soup, clean_text, structured),
         crawl_metadata |-> [crawler_id |-> "geo-crawler-v1", response_code |-> 200],
         citation_score |-> None,
         first_seen |-> t,
         last_updated |-> t,
         keywords |-> NoKeywords]

\* ----------------------------------------------------------------- store

\* _extract_keywords(self, doc, top_n: int = 15)
TopN == 15

\* w.strip('.,!?;:()[]{}\"\'')
Punct == {".", ",", "!", "?", ";", ":", "(", ")", "[", "]", "{", "}", "\"", "'"}

\* " ".join([h.get("text", "") for h in doc.headings]) if doc.headings else ""
HeadingTexts(d) ==
    IF d.headings # <<>>
    THEN Join(AsSeq([i \in 1..Len(d.headings) |-> d.headings[i].text]), SP)
    ELSE <<>>

\* " ".join([doc.title or "", doc.clean_text or "", heading_texts]).lower()
DocText(d) == Lower(Join(<<d.title, d.clean_text, HeadingTexts(d)>>, SP))

\* the mutant of KeywordWords: no minimum length
KeywordWordsAnyLength(text) ==
    LET raw == Split(text)
    IN  SelectSeq(AsSeq([i \in 1..Len(raw) |-> Strip(raw[i], Punct)]), LAMBDA w : w # <<>>)

\* words = [w.strip(...) for w in text.split()], then those with w and
\* len(w) > 2 (the stopwords dict is empty)
KeywordWords(text) ==
    LET raw == Split(text)
    IN  SelectSeq(AsSeq([i \in 1..Len(raw) |-> Strip(raw[i], Punct)]),
                  LAMBDA w : w # <<>> /\ Len(w) > 2)

\* the keys of Counter(words), in order of first occurrence
RECURSIVE Distinct(_)
Distinct(words) ==
    IF words = <<>> THEN <<>>
    ELSE LET front == Distinct(SubSeq(words, 1, Len(words) - 1))
             w == words[Len(words)]
         IN  IF w \in SeqToSet(front) THEN front ELSE Append(front, w)

\* Counter(words)[w]
CountOf(words, w) == Cardinality({i \in 1..Len(words) : words[i] = w})

RECURSIVE SetToSeq(_)
\* the members of a set, one after the other (self.documents.values())
SetToSeq(S) ==
    IF S = {} THEN <<>>
    ELSE LET x == CHOOSE x \in S : TRUE IN <<x>> \o SetToSeq(S \ {x})

\* ContentStore._calculate_idf: word -> <<total_docs, count>>, standing for
\* math.log(total_docs / count); a word is a token of set(text.split())
CalculateIdf(docs) ==
    LET ids == SetToSeq(DOMAIN docs)
        total_docs == Len(ids)
        unique_words == AsSeq([i \in 1..total_docs |->
                                  SeqToSet(Split(DocText(docs[ids[i]])))])
    IN  [w \in UNION {unique_words[i] : i \in 1..total_docs} |->
            <<total_docs, Cardinality({i \in 1..total_docs : w \in unique_words[i]})>>]

\* idf_scores.get(word, math.log(len(self.documents) + 1))
IdfOf(idf_scores, docs, word) ==
    IF word \in DOMAIN idf_scores THEN idf_scores[word]
    ELSE <<Cardinality(DOMAIN docs) + 1, 1>>

RECURSIVE Pow(_, _)
Pow(a, n) == IF n = 0 THEN 1 ELSE a * Pow(a, n - 1)

\* s1 >= s2 for scores (count / total_words) * log(a / b) of one document:
\* count1 * log(a1/b1) >= count2 * log(a2/b2), compared exactly
ScoreGE(s1, s2) ==
    Pow(s1.a, s1.count) * Pow(s2.b, s2.count) >= Pow(s2.a, s2.count) * Pow(s1.b, s1.count)

\* the mutant of SortedByScore: of two equal scores the later item goes first
RECURSIVE SortedByScoreTiesReversed(_)
SortedByScoreTiesReversed(items) ==
    IF items = <<>> THEN <<>>
    ELSE LET front == SortedByScoreTiesReversed(SubSeq(items, 1, Len(items) - 1))
             x == items[Len(items)]
             k == Cardinality({i \in 1..Len(front) : ~ScoreGE(x.score, front[i].score)})
         IN  SubSeq(front, 1, k) \o <<x>> \o SubSeq(front, k + 1, Len(front))

\* sorted(items, key=score, reverse=True): a stable sort, so equal scores
\* keep their order in items
RECURSIVE SortedByScore(_)
SortedByScore(items) ==
    IF items = <<>> THEN <<>>
    ELSE LET front == SortedByScore(SubSeq(items, 1, Len(items) - 1))
             x == items[Len(items)]
             \* x goes after every element whose score is >= its own
             k == Cardinality({i \in 1..Len(front) : ScoreGE(front[i].score, x.score)})
         IN  SubSeq(front, 1, k) \o <<x>> \o SubSeq(front, k + 1, Len(front))

\* ContentStore._extract_keywords against the corpus docs
ExtractKeywords(d, docs, top_n) ==
    LET words == KeywordWords(DocText(d))
        idf_scores == CalculateIdf(docs)
        keys == Distinct(words)
        tfidf_scores == AsSeq([i \in 1..Len(keys) |->
            LET idf == IdfOf(idf_scores, docs, keys[i])
            IN  [word |-> keys[i],
                 score |-> [count |-> CountOf(words, keys[i]),
                            a |-> idf[1], b |-> idf[2]]]])
        ranked == SortedByScore(tfidf_scores)
        top_keywords == SubSeq(ranked, 1, IF Len(ranked) < top_n THEN Len(ranked) ELSE top_n)
    IN  AsSeq([i \in 1..Len(top_keywords) |-> top_keywords[i].word])

\* the mutant of Refreshed: the stored first_seen is not carried over
RefreshedLosingFirstSeen(d, docs, t) ==
    IF d.doc_id \in DOMAIN docs THEN [d EXCEPT !.last_updated = t] ELSE d

\* add_document, lines 19-21: a document whose doc_id is stored keeps the
\* stored first_seen and has last_updated stamped with utcnow()
Refreshed(d, docs, t) ==
    IF d.doc_id \in DOMAIN docs
    THEN [d EXCEPT !.first_seen = docs[d.doc_id].first_seen, !.last_updated = t]
    ELSE d

\* the mutant of WithKeywords: a stored keyword list is kept
WithKeywordsKeepingStored(d, docs) ==
    IF d.doc_id \in DOMAIN docs /\ docs[d.doc_id].keywords.list # <<>>
    THEN [d EXCEPT !.keywords = docs[d.doc_id].keywords]
    ELSE [d EXCEPT !.keywords = [is_none |-> FALSE, list |-> ExtractKeywords(d, docs, TopN)]]

\* doc.keywords = self._extract_keywords(doc): computed before the document
\* is put into self.documents
WithKeywords(d, docs) ==
    [d EXCEPT !.keywords = [is_none |-> FALSE, list |-> ExtractKeywords(d, docs, TopN)]]

\* the mutant of Put: the corpus is replaced by the one document
PutAlone(docs, d) == [id \in {d.doc_id} |-> d]

\* the mutant of Put: the keyword lists of the other documents are computed
\* anew against the corpus the document joins
PutRefreshingOthers(docs, d) ==
    [id \in DOMAIN docs \cup {d.doc_id} |->
        IF id = d.doc_id THEN d
        ELSE [docs[id] EXCEPT !.keywords =
                 [is_none |-> FALSE, list |-> ExtractKeywords(docs[id], docs, TopN)]]]

\* self.documents[doc.doc_id] = doc
Put(docs, d) ==
    [id \in DOMAIN docs \cup {d.doc_id} |-> IF id = d.doc_id THEN d ELSE docs[id]]

\* json.dump of asdict(doc): the same fields, None written as null
AsJson(d) ==
    [doc_id |-> d.doc_id, url |-> d.url, entity_type |-> d.entity_type,
     entity_name |-> d.entity_name, title |-> d.title,
     content_type |-> d.content_type, clean_text |-> d.clean_text,
     headings |-> d.headings, structured_data |-> d.structured_data,
     metrics |-> d.metrics, crawl_metadata |-> d.crawl_metadata,
     citation_score |-> IF d.citation_score = None THEN "null" ELSE d.citation_score,
     first_seen |-> d.first_seen, last_updated |-> d.last_updated,
     keywords |-> [null |-> d.keywords.is_none, array |-> d.keywords.list]]

\* ContentStore.__init__: self.documents = {}
NoDocuments == [id \in {} |-> 0]

NoFile == [exists |-> FALSE, data |-> [id \in {} |-> 0]]

\* ContentStore.save: the file's content after the corpus docs is written
Saved(docs) ==
    [exists |-> TRUE, data |-> [id \in DOMAIN docs |-> AsJson(docs[id])]]

\* the mutant of FromJson: the loaded document gets a fresh first_seen
FromJsonFreshFirstSeen(j, t) ==
    [doc_id |-> j.doc_id, url |-> j.url, entity_type |-> j.entity_type,
     entity_name |-> j.entity_name, title |-> j.title,
     content_type |-> j.content_type, clean_text |-> j.clean_text,
     headings |-> j.headings, structured_data |-> j.structured_data,
     metrics |-> j.metrics, crawl_metadata |-> j.crawl_metadata,
     citation_score |-> IF j.citation_score = "null" THEN None ELSE j.citation_score,
     first_seen |-> t, last_updated |-> j.last_updated,
     keywords |-> [is_none |-> j.keywords.null, list |-> j.keywords.array]]

\* ContentDocument(**doc_dict) at clock value t: null read as None;
\* __post_init__ stamps first_seen and last_updated only when they are
\* empty, which the isoformat strings save wrote never are
FromJson(j, t) ==
    [doc_id |-> j.doc_id, url |-> j.url, entity_type |-> j.entity_type,
     entity_name |-> j.entity_name, title |-> j.title,
     content_type |-> j.content_type, clean_text |-> j.clean_text,
     headings |-> j.headings, structured_data |-> j.structured_data,
     metrics |-> j.metrics, crawl_metadata |-> j.crawl_metadata,
     citation_score |-> IF j.citation_score = "null" THEN None ELSE j.citation_score,
     first_seen |-> j.first_seen, last_updated |-> j.last_updated,
     keywords |-> [is_none |-> j.keywords.null, list |-> j.keywords.array]]

\* ContentStore.load at clock value t: the documents of the file, none when
\* there is no file
Loaded(f, t) ==
    IF f.exists THEN [id \in DOMAIN f.data |-> FromJson(f.data[id], t)] ELSE NoDocuments

\* the mutant of AddResult: the file is written before the document is put
\* into the corpus
AddResultSaveFirst(d, docs, t) ==
    LET stored == WithKeywords(Refreshed(d, docs, t), docs)
    IN  [documents |-> Put(docs, stored), file |-> Saved(docs)]

\* ContentStore.add_document(doc) at clock value t: the corpus and the file
\* it leaves behind
AddResult(d, docs, t) ==
    LET stored == WithKeywords(Refreshed(d, docs, t), docs)
        new_docs == Put(docs, stored)
    IN  [documents |-> new_docs, file |-> Saved(new_docs)]

\* ------------------------------------------------------- inputs of a crawl

Host == <<"x",".","i","o">>

\* path segments of the URLs given to the crawler
Segments ==
    { <<"/","f","a","q">>, <<"/","F","A","Q","s">>, <<"/","B","l","o","g">>, <<"/","a","r","t","i","c","l","e">>, <<"/","p","r","o","d","u","c","t">>, <<"/","s","h","o","p">>,
      <<"/","d","o","c","s">>, <<"/","d","o","c","u","m","e","n","t","a","t","i","o","n">>, <<"/","a","b","o","u","t">> }

RECURSIVE Paths(_)
\* the concatenations of at most n segments
Paths(n) ==
    IF n = 0 THEN {<<>>}
    ELSE Paths(n - 1) \cup {p \o seg : p \in Paths(n - 1), seg \in Segments}

CrawlUrls == {Host \o p : p \in Paths(MaxSegs)}

\* the URLs crawled into the store, each the page of one entity
StoreUrls == {Host \o <<"/","f","a","q">>, Host \o <<"/","s","h","o","p">>}

EntityOf(url) ==
    IF url = Host \o <<"/","f","a","q">>
    THEN [type |-> "owned_brand", name |-> "Nike"]
    ELSE [type |-> "competitor", name |-> "Adidas"]

Entities == {EntityOf(url) : url \in StoreUrls}

\* TopN + 1 different three-letter words
LongWord(i) == <<"k", LowerChars[(i \div 5) + 1], LowerChars[(i % 5) + 1]>>
LongText == Join(AsSeq([i \in 1..(TopN + 1) |-> LongWord(i)]), SP)

\* pages whose text the keyword extraction works on
StoreShoes ==
    << El("title", <<"S","h","o","e","s">>), El("p", <<"T","r","a","i","l"," ","s","h","o","e","s","."," ","R","u","n"," ","f","a","r">>), El("h1", <<"T","r","a","i","l">>) >>
StoreRun == << El("title", <<"R","u","n">>), El("p", <<"r","u","n"," ","s","h","o","e","s"," ","r","u","n">>) >>
\* text, and no token of three characters
StoreShort == << El("title", <<"G","o">>), El("p", <<"a"," ","a","n"," ","t","o"," ","i","t",".">>) >>
StoreLong == << El("p", LongText) >>
\* no text at all
StoreEmpty == << El("img", <<>>) >>

\* two of its tokens are followed by punctuation wherever they occur
StorePunct == << El("title", <<"R","u","n">>), El("p", <<"S","h","o","e","s",","," ","r","u","n","."," ","T","r","a","i","l","!">>) >>

\* the pages of the store's life cycle, and those of keyword extraction
StorePages == {StoreShoes, StoreRun}
KeywordPages == {StoreShoes, StoreRun, StoreShort, StoreLong, StoreEmpty, StorePunct}

\* ------------------------------------------------------------------ state

\* CompetitiveGapAnalyzer.__init__: self.entity_documents = {}
NoTexts == [e \in {} |-> <<>>]

\* ------------------------------------------- two stores on one path

\* the processes that each construct a ContentStore on the same path
Processes == {1, 2}

\* a process that has not constructed its store
NotOpened == [pc |-> "none", documents |-> NoDocuments, pending |-> <<>>]

\* a process stopped in the middle of a save
Stopped == [pc |-> "killed", documents |-> NoDocuments, pending |-> <<>>]

\* no file at the path; writer is the process that last opened it for writing
NoTextFile == [exists |-> FALSE, chunks |-> <<>>, writer |-> 0]

OpenBrace == [kind |-> "open", id |-> <<>>, json |-> <<>>]
CloseBrace == [kind |-> "close", id |-> <<>>, json |-> <<>>]
Member(id, j) == [kind |-> "member", id |-> <<id>>, json |-> <<j>>]

\* json.dump(data, f, indent=2): the pieces written one after the other,
\* the brace that closes the object last
JsonDump(data) ==
    LET ids == SetToSeq(DOMAIN data)
    IN  <<OpenBrace>> \o [k \in 1..Len(ids) |-> Member(ids[k], data[ids[k]])]
                      \o <<CloseBrace>>

\* the members between the braces of a text
MembersOf(chunks) ==
    [id \in {chunks[k].id[1] : k \in 2..(Len(chunks) - 1)} |->
        chunks[CHOOSE k \in 2..(Len(chunks) - 1) : chunks[k].id[1] = id].json[1]]

\* the mutant of JsonLoad: a text that stops early is read as far as it goes
JsonLoadLenient(chunks) ==
    IF Len(chunks) >= 1 /\ chunks[Len(chunks)].kind # "close"
    THEN [ok |-> TRUE, data |-> MembersOf(Append(chunks, CloseBrace))]
    ELSE [ok |-> Len(chunks) >= 2,
          data |-> IF Len(chunks) >= 2 THEN MembersOf(chunks) ELSE NoDocuments]

\* json.load(f): the dict of a text that is one whole object, and
\* JSONDecodeError for any other text, the empty one included
JsonLoad(chunks) ==
    IF /\ Len(chunks) >= 2
       /\ chunks[1].kind = "open"
       /\ chunks[Len(chunks)].kind = "close"
       /\ \A k \in 2..(Len(chunks) - 1) : chunks[k].kind = "member"
    THEN [ok |-> TRUE, data |-> MembersOf(chunks)]
    ELSE [ok |-> FALSE, data |-> NoDocuments]

\* the mutant of Constructed: load lets FileNotFoundError through
ConstructedRaisingNoFile(f, t) ==
    IF f.exists /\ JsonLoad(f.chunks).ok
    THEN [pc |-> "open", pending |-> <<>>,
          documents |-> Loaded([exists |-> TRUE, data |-> JsonLoad(f.chunks).data], t)]
    ELSE [pc |-> "raised", documents |-> NoDocuments, pending |-> <<>>]

\* ContentStore(path) at clock value t: __init__ sets documents to {} and
\* calls load, which catches FileNotFoundError and nothing else
Constructed(f, t) ==
    IF ~f.exists
    THEN [pc |-> "open", documents |-> NoDocuments, pending |-> <<>>]
    ELSE IF JsonLoad(f.chunks).ok
    THEN [pc |-> "open", pending |-> <<>>,
          documents |-> Loaded([exists |-> TRUE, data |-> JsonLoad(f.chunks).data], t)]
    ELSE [pc |-> "raised", documents |-> NoDocuments, pending |-> <<>>]

\* the mutant of OpenedForWriting: the file is opened in mode 'a'
OpenedForAppending(f, i) == [exists |-> TRUE, chunks |-> f.chunks, writer |-> i]

\* open(path, 'w') by process i: the file exists and is empty
OpenedForWriting(f, i) == [exists |-> TRUE, chunks |-> <<>>, writer |-> i]

\* the corpus a text holds, if it holds one
CorpusOf(chunks) == IF JsonLoad(chunks).ok THEN <<JsonLoad(chunks).data>> ELSE <<>>

\* ------------------------------------------------ the extraction agent

\* AIExtractionAgent.llms: the names extract_response has a URL for
Llms == {"Perplexity", "ChatGPT", "Copilot", "Gemini"}

\* the default of max_retries
DefaultMaxRetries == 2
\* extract_response is called with max_retries from 0 to MaxRetries
MaxRetries == 2

\* the agent between two calls of extract_response
NoCall(results) ==
    [pc |-> "idle", llm |-> "", prompt_index |-> 0, retry_count |-> 0,
     max_retries |-> 0, attempts |-> 0, last |-> "", results |-> results]

Init ==
    /\ now = 0
    /\ doc = <<>>
    /\ fetched = <<>>
    /\ documents = NoDocuments
    /\ file = NoFile
    /\ ai_bots = <<>>
    /\ ingest_pc = "seed"
    /\ patterns = <<>>
    /\ batch = 0
    /\ to_insert = <<>>
    /\ crawler_logs = <<>>
    /\ bot_csv = <<>>
    /\ log_csv = <<>>
    /\ total = 0
    /\ entity_documents = NoTexts
    /\ gap_call = <<>>
    /\ report = <<>>
    /\ simple_gaps = <<>>
    /\ opened_at = 0
    /\ loop = <<>>
    /\ stores = [i \in Processes |-> NotOpened]
    /\ disk = NoTextFile
    /\ prepared = <<>>
    /\ keyword_gaps = <<>>
    /\ classified = <<>>
    /\ agent = NoCall(<<>>)

\* time passes between two reads of the clock
Tick ==
    /\ now < MaxClock
    /\ now' = now + 1
    /\ UNCHANGED <<doc, fetched, documents, file>>
    /\ UNCHANGED <<ingestVars, gapVars, demoVars>>

\* doc = crawler.crawl(url, entity_type, entity_name), the fetch succeeding
CrawlStep(url, entity, page) ==
    /\ doc = <<>>
    /\ doc' = <<Crawl(url, entity.type, entity.name, page, now)>>
    /\ fetched' = <<page>>
    /\ UNCHANGED <<now, documents, file>>
    /\ UNCHANGED <<ingestVars, gapVars, demoVars>>

\* the crawl of one URL of a demo's list, before its add_document
CrawlForStore ==
    \E url \in StoreUrls, page \in StorePages : CrawlStep(url, EntityOf(url), page)

\* store.add_document(doc) with the document just crawled
AddDocument ==
    /\ doc # <<>>
    /\ LET r == AddResult(doc[1], documents, now)
       IN  /\ documents' = r.documents
           /\ file' = r.file
    /\ doc' = <<>>
    /\ fetched' = <<>>
    /\ UNCHANGED now
    /\ UNCHANGED <<ingestVars, gapVars, demoVars>>

Next == Tick \/ CrawlForStore \/ AddDocument

\* the crawler feeding one ContentStore while time passes
Spec == Init /\ [][Next]_vars

\* the same loop over pages of every kind of text, the clock standing still
CrawlForKeywords ==
    \E url \in StoreUrls, page \in KeywordPages : CrawlStep(url, EntityOf(url), page)

NextKeywords == CrawlForKeywords \/ AddDocument

SpecKeywords == Init /\ [][NextKeywords]_vars

\* ContentStore(storage_path) constructed anew on the same path, as when the
\* script is run again: the documents are those load() reads from the file
Restart ==
    /\ opened_at < now
    /\ opened_at' = now
    /\ documents' = Loaded(file, now)
    /\ UNCHANGED <<now, doc, fetched, file, loop, shareVars, agentVars>>
    /\ UNCHANGED <<ingestVars, gapVars>>

NextRestart == Tick \/ CrawlForStore \/ AddDocument \/ Restart

\* the crawl-and-store loop over several runs of the script
SpecRestart == Init /\ [][NextRestart]_vars

\* ------------------------------------------------- the crawl loops

\* The three loops that call crawl() for each URL of a list:
\*   "demo"    IntegratedCrawlerDemo.run, which stores each document
\*   "scraper" IntegratedProductScraper.run, which stores each document
\*   "entity"  CompetitiveGapDemo.crawl_entity, which collects the documents
\*             and hands them to the analyzer when the list is done
LoopKinds == {"demo", "scraper", "entity"}

\* what crawl() may raise for one URL: requests' Timeout, ConnectionError
\* and HTTPError, and any other Exception
CrawlErrors == {"timeout", "connection", "http", "error"}

UrlLists == UNION {[1..n -> StoreUrls] : n \in 1..MaxUrls}

\* the entity the loop crawls url for
LoopEntity(l, url) ==
    IF l.kind = "demo" THEN [type |-> "owned_brand", name |-> "Target Site"]
    ELSE IF l.kind = "scraper" THEN EntityOf(url)
    ELSE l.entity

\* the line the loop prints for the URL at hand
Logged(l, result) == Append(l.log, [url |-> l.urls[l.i], result |-> result])

\* the mutant of AfterFailure: the loop is left at the first failure
AfterFailureStopping(l, error) ==
    [l EXCEPT !.log = Logged(l, error), !.pc = "done"]

\* an except clause for what crawl() raised: the message is printed and the
\* loop goes on with the next URL
AfterFailure(l, error) ==
    [l EXCEPT !.log = Logged(l, error), !.i = l.i + 1]

\* KeyboardInterrupt: the demo's loop has a clause for it that breaks; the
\* other loops catch Exception only, and the interrupt ends the run
AfterInterrupt(l) ==
    IF l.kind = "demo" THEN [l EXCEPT !.log = Logged(l, "interrupted"), !.pc = "done"]
    ELSE [l EXCEPT !.pc = "aborted"]

\* the try block ran to its end with the document d
AfterSuccess(l, d) ==
    [l EXCEPT !.log = Logged(l, "stored"), !.i = l.i + 1,
              !.documents = IF l.kind = "entity" THEN Append(l.documents, d)
                            ELSE l.documents]

\* run() or crawl_entity() reaches its loop with the list urls
StartLoop ==
    /\ loop = <<>>
    /\ doc = <<>>
    /\ \E kind \in LoopKinds, urls \in UrlLists, entity \in Entities :
           loop' = << [kind |-> kind, urls |-> urls, entity |-> entity, i |-> 1,
                       log |-> <<>>, documents |-> <<>>, pc |-> "running"] >>
    /\ UNCHANGED <<storeVars, opened_at, shareVars, agentVars>>
    /\ UNCHANGED <<ingestVars, gapVars>>

LoopRunning == loop # <<>> /\ loop[1].pc = "running" /\ loop[1].i <= Len(loop[1].urls)

\* one turn of the loop in which crawl() returns a document: the store
\* loops add it to the store, crawl_entity appends it to its list
IterateStored ==
    /\ LoopRunning
    /\ \E page \in StorePages :
           LET l == loop[1]
               url == l.urls[l.i]
               entity == LoopEntity(l, url)
               d == Crawl(url, entity.type, entity.name, page, now)
               r == AddResult(d, documents, now)
           IN  /\ loop' = <<AfterSuccess(l, d)>>
               /\ IF l.kind = "entity"
                  THEN UNCHANGED <<documents, file>>
                  ELSE documents' = r.documents /\ file' = r.file
    /\ UNCHANGED <<now, doc, fetched, opened_at, shareVars, agentVars>>
    /\ UNCHANGED <<ingestVars, gapVars>>

\* one turn of the loop in which crawl() raises
IterateFailed ==
    /\ LoopRunning
    /\ \E error \in CrawlErrors : loop' = <<AfterFailure(loop[1], error)>>
    /\ UNCHANGED <<storeVars, opened_at, shareVars, agentVars>>
    /\ UNCHANGED <<ingestVars, gapVars>>

\* the user interrupts the crawl of the URL at hand
IterateInterrupted ==
    /\ LoopRunning
    /\ loop' = <<AfterInterrupt(loop[1])>>
    /\ UNCHANGED <<storeVars, opened_at, shareVars, agentVars>>
    /\ UNCHANGED <<ingestVars, gapVars>>

\* the list is exhausted: crawl_entity hands its documents to the analyzer
FinishLoop ==
    /\ loop # <<>>
    /\ loop[1].pc = "running"
    /\ loop[1].i > Len(loop[1].urls)
    /\ loop' = <<[loop[1] EXCEPT !.pc = "done"]>>
    /\ IF loop[1].kind = "entity"
       THEN entity_documents' =
                [e \in DOMAIN entity_documents \cup {loop[1].entity.name} |->
                    IF e = loop[1].entity.name THEN loop[1].documents
                    ELSE entity_documents[e]]
       ELSE UNCHANGED entity_documents
    /\ UNCHANGED <<gap_call, report, simple_gaps>>
    /\ UNCHANGED <<storeVars, opened_at, shareVars, agentVars>>
    /\ UNCHANGED ingestVars

NextLoop == StartLoop \/ IterateStored \/ IterateFailed \/ IterateInterrupted \/ FinishLoop

\* one crawl loop from its start to its end
SpecLoop == Init /\ [][NextLoop]_vars

\* ------------------------------------- two processes sharing one path

\* process i constructs its ContentStore, for the first time or anew
Construct(i) ==
    /\ stores[i].pc # "saving"
    /\ stores' = [stores EXCEPT ![i] = Constructed(disk, now)]
    /\ UNCHANGED <<disk, prepared, keyword_gaps>>
    /\ UNCHANGED <<storeVars, ingestVars, gapVars, opened_at, loop, agentVars>>

\* add_document of process i up to the open(path, 'w') of its save: the
\* corpus is changed and the file is empty.  No save starts while the
\* other process is in the middle of one.
Add(i) ==
    /\ stores[i].pc = "open"
    /\ \A j \in Processes : stores[j].pc # "saving"
    /\ \E url \in StoreUrls, page \in StorePages :
           LET entity == EntityOf(url)
               d == Crawl(url, entity.type, entity.name, page, now)
               r == AddResult(d, stores[i].documents, now)
           IN  stores' = [stores EXCEPT ![i] =
                             [pc |-> "saving", documents |-> r.documents,
                              pending |-> JsonDump(r.file.data)]]
    /\ disk' = OpenedForWriting(disk, i)
    /\ UNCHANGED <<prepared, keyword_gaps>>
    /\ UNCHANGED <<storeVars, ingestVars, gapVars, opened_at, loop, agentVars>>

\* json.dump of process i writes its next piece; after the last one the
\* file is closed and add_document returns
Write(i) ==
    /\ stores[i].pc = "saving"
    /\ disk' = [disk EXCEPT !.chunks = Append(@, Head(stores[i].pending))]
    /\ stores' = [stores EXCEPT ![i] =
                     [@ EXCEPT !.pending = Tail(@),
                               !.pc = IF Len(stores[i].pending) = 1 THEN "open"
                                      ELSE "saving"]]
    /\ UNCHANGED <<prepared, keyword_gaps>>
    /\ UNCHANGED <<storeVars, ingestVars, gapVars, opened_at, loop, agentVars>>

\* process i is stopped in the middle of its save: what it had not written
\* is lost with it
Kill(i) ==
    /\ stores[i].pc = "saving"
    /\ stores' = [stores EXCEPT ![i] = Stopped]
    /\ UNCHANGED <<disk, prepared, keyword_gaps>>
    /\ UNCHANGED <<storeVars, ingestVars, gapVars, opened_at, loop, agentVars>>

NextShared == \E i \in Processes : Construct(i) \/ Add(i) \/ Write(i) \/ Kill(i)

\* two processes, each with a ContentStore on the same path
SpecShared == Init /\ [][NextShared]_vars

\* ContentCrawler.crawl on its own, over the URLs and pages of the crawler
CrawlAny ==
    \E url \in CrawlUrls, page \in CrawlPages, entity \in Entities :
        CrawlStep(url, entity, page)

\* the caller takes the returned document
TakeDocument ==
    /\ doc # <<>>
    /\ doc' = <<>>
    /\ fetched' = <<>>
    /\ UNCHANGED <<now, documents, file>>
    /\ UNCHANGED <<ingestVars, gapVars, demoVars>>

NextCrawl == CrawlAny \/ TakeDocument

SpecCrawl == Init /\ [][NextCrawl]_vars

\* ---------------------------------------------------- AI-bot attribution

\* A user_agent_pattern of ai_bots: NULL, a text re.compile rejects, or a
\* regex; the regexes of the model search for a literal text, with or
\* without (?i).
NullPattern == [kind |-> "null", ci |-> FALSE, text |-> <<>>]
InvalidPattern == [kind |-> "invalid", ci |-> FALSE, text |-> <<"(">>]
Literal(ci, text) == [kind |-> "regex", ci |-> ci, text |-> text]

\* the characters of the model's names in code-point order, for sorted()
CodeOrder == << " ", "-", ".", "/" >> \o UpperChars \o LowerChars

OrdOf == [c \in SeqToSet(CodeOrder) |-> CHOOSE i \in 1..Len(CodeOrder) : CodeOrder[i] = c]

Ord(c) == OrdOf[c]

\* a < b for str, the characters before position i being the same
RECURSIVE StrLessFrom(_, _, _)
StrLessFrom(a, b, i) ==
    IF i > Len(b) THEN FALSE
    ELSE IF i > Len(a) THEN TRUE
    ELSE IF a[i] = b[i] THEN StrLessFrom(a, b, i + 1)
    ELSE Ord(a[i]) < Ord(b[i])

\* a < b for str
StrLess(a, b) == StrLessFrom(a, b, 1)

\* sorted(S) for a set of str
RECURSIVE SortedStrs(_)
SortedStrs(S) ==
    IF S = {} THEN <<>>
    ELSE LET least == CHOOSE x \in S : \A y \in S \ {x} : StrLess(x, y)
         IN  <<least>> \o SortedStrs(S \ {least})

\* '(?i)' + re.escape(name)
SeedPattern(name) == Literal(TRUE, name)

\* the mutant of SeedOne: the UPDATE sets the pattern whatever it was
SeedOneOverwriting(table, bot) ==
    LET name == Strip(bot, {" "})
    IN  IF name = <<>> THEN table
        ELSE IF \E i \in 1..Len(table) : table[i].name = name
        THEN [i \in 1..Len(table) |->
                 IF table[i].name = name
                 THEN [table[i] EXCEPT !.pattern = SeedPattern(name)]
                 ELSE table[i]]
        ELSE Append(table, [bot_id |-> Len(table) + 1, name |-> name,
                            pattern |-> SeedPattern(name)])

\* one turn of the loop of ensure_ai_bots_seed: SELECT by name, then UPDATE
\* ... COALESCE(user_agent_pattern, pattern) or INSERT (bot_id is serial)
SeedOne(table, bot) ==
    LET name == Strip(bot, {" "})
    IN  IF name = <<>> THEN table
        ELSE IF \E i \in 1..Len(table) : table[i].name = name
        THEN [i \in 1..Len(table) |->
                 IF table[i].name = name /\ table[i].pattern.kind = "null"
                 THEN [table[i] EXCEPT !.pattern = SeedPattern(name)]
                 ELSE table[i]]
        ELSE Append(table, [bot_id |-> Len(table) + 1, name |-> name,
                            pattern |-> SeedPattern(name)])

RECURSIVE SeedAll(_, _)
SeedAll(table, bots) ==
    IF bots = <<>> THEN table
    ELSE SeedAll(AsSeq(SeedOne(table, Head(bots))), Tail(bots))

\* ensure_ai_bots_seed: csv is the 'Bot' column of bot_table.csv (a cell is
\* <<>> when it is empty), or has_bot_column is FALSE
EnsureAiBotsSeed(table, csv) ==
    IF ~csv.has_bot_column THEN table
    ELSE SeedAll(table,
            SortedStrs({csv.bots[i][1] : i \in {j \in 1..Len(csv.bots) : csv.bots[j] # <<>>}}))

\* re.compile(pat), or re.compile(re.escape(name), re.I) when pat is empty
\* or does not compile
Compile(row) ==
    IF row.pattern.kind = "regex" THEN row.pattern ELSE Literal(TRUE, row.name)

\* regex.search(ua) for a regex of the model
Search(regex, ua) ==
    IF regex.ci THEN Contains(Lower(ua), Lower(regex.text))
    ELSE Contains(ua, regex.text)

RECURSIVE Perms(_)
\* the orders in which a SELECT without ORDER BY may return a set of rows
Perms(S) ==
    IF S = {} THEN {<<>>}
    ELSE UNION {{<<x>> \o p : p \in Perms(S \ {x})} : x \in S}

\* load_ai_bots_patterns on rows fetched in some order
LoadAiBotsPatterns(rows) ==
    [i \in 1..Len(rows) |->
        [bot_id |-> rows[i].bot_id, name |-> rows[i].name, regex |-> Compile(rows[i])]]

\* the first key of keys that is a column of the row with a value
RECURSIVE FirstValue(_, _)
FirstValue(row, keys) ==
    IF keys = <<>> THEN <<>>
    ELSE IF Head(keys) \in DOMAIN row /\ row[Head(keys)] # <<>> THEN row[Head(keys)]
    ELSE FirstValue(row, Tail(keys))

UserAgentKeys == <<"user_agent", "User-Agent", "useragent", "Bot", "bot", "agent">>
UrlKeys == <<"url", "URL", "Page path", "path", "request", "Request">>

\* parse_row_to_event: the user agent and the url of the event (<<>> is
\* None); its timestamp, status and ip are not modelled
ParseRowToEvent(row) ==
    [user_agent |-> FirstValue(row, UserAgentKeys),
     url |-> IF FirstValue(row, UrlKeys) = <<>> THEN <<<<"/">>>> ELSE FirstValue(row, UrlKeys),
     raw |-> row]

\* the mutant of PatternMatch: the last matching pattern wins
PatternMatchLast(pats, ua) ==
    LET hits == {i \in 1..Len(pats) : ua # <<>> /\ Search(pats[i].regex, ua)}
    IN  IF hits = {} THEN 0 ELSE CHOOSE i \in hits : \A j \in hits : j <= i

\* the first loop of ingest_server_logs over patterns: the index of the
\* first pattern that matches ua, 0 when none does
PatternMatch(pats, ua) ==
    LET hits == {i \in 1..Len(pats) : ua # <<>> /\ Search(pats[i].regex, ua)}
    IN  IF hits = {} THEN 0 ELSE CHOOSE i \in hits : \A j \in hits : i <= j

\* the mutant of NameMatch: the name is looked for inside the Bot value
NameMatchSubstring(pats, row) ==
    IF "Bot" \in DOMAIN row /\ row["Bot"] # <<>>
    THEN LET hits == {i \in 1..Len(pats) :
                         Contains(Lower(row["Bot"][1]), Lower(pats[i].name))}
         IN  IF hits = {} THEN 0 ELSE CHOOSE i \in hits : \A j \in hits : i <= j
    ELSE 0

\* the fallback loop: the index of the first pattern whose name equals the
\* row's Bot value up to case, 0 when there is none
NameMatch(pats, row) ==
    IF "Bot" \in DOMAIN row /\ row["Bot"] # <<>>
    THEN LET hits == {i \in 1..Len(pats) : Lower(row["Bot"][1]) = Lower(pats[i].name)}
         IN  IF hits = {} THEN 0 ELSE CHOOSE i \in hits : \A j \in hits : i <= j
    ELSE 0

\* the body of the loop of ingest_server_logs for one row: the tuple
\* appended to to_insert (<<>> is NULL)
RowTuple(pats, row) ==
    LET evt == ParseRowToEvent(row)
        ua == IF evt.user_agent = <<>> THEN <<>> ELSE evt.user_agent[1]
        hit == PatternMatch(pats, ua)
        byname == IF hit = 0 THEN NameMatch(pats, row) ELSE 0
    IN  [bot_id |-> IF hit # 0 THEN <<pats[hit].bot_id>>
                    ELSE IF byname # 0 THEN <<pats[byname].bot_id>> ELSE <<>>,
         detected_name |-> IF hit # 0 THEN <<pats[hit].name>>
                           ELSE IF byname # 0 THEN <<pats[byname].name>> ELSE <<>>,
         detection_confidence |-> IF hit # 0 THEN "high"
                                  ELSE IF byname # 0 THEN "medium" ELSE "low",
         url |-> evt.url[1],
         user_agent |-> ua,
         raw_log |-> row]

\* the 'Bot' column of the bot tables given to the script
BotTables ==
    { [exists |-> TRUE, has_bot_column |-> TRUE, bots |-> << <<<<"G","P","T","B","o","t">>>> >>],
      [exists |-> TRUE, has_bot_column |-> TRUE,
       bots |-> << <<<<"G","P","T","B","o","t">>>>, <<>>, <<<<"B","o","t">>>>, <<<<" ">>>>, <<<<"G","P","T","B","o","t"," ">>>> >>],
      [exists |-> TRUE, has_bot_column |-> FALSE, bots |-> <<>>] }

\* a path at which there is no file
MissingCsv == [exists |-> FALSE, has_bot_column |-> FALSE, bots |-> <<>>]

\* rows that are in ai_bots before the script runs
PresetRows ==
    { [bot_id |-> 1, name |-> <<"B","o","t">>, pattern |-> NullPattern],
      [bot_id |-> 1, name |-> <<"G","P","T","B","o","t">>, pattern |-> Literal(FALSE, <<"G","P","T","B","o","t","/">>)],
      [bot_id |-> 1, name |-> <<"C","l","a","u","d","e">>, pattern |-> InvalidPattern] }

\* a value of a CSV cell
Cell(text) == <<text>>

\* the rows of the server logs: columns and their values (<<>> is NaN)
LogRows ==
    { [c \in {"user_agent", "Page path"} |->
          IF c = "user_agent" THEN Cell(<<"M","o","z","i","l","l","a","/","5",".","0"," ","G","P","T","B","o","t","/","1",".","0">>) ELSE Cell(<<"/","f","a","q">>)],
      [c \in {"user_agent", "Bot"} |->
          IF c = "user_agent" THEN Cell(<<"c","u","r","l">>) ELSE Cell(<<"g","p","t","b","o","t">>)],
      [c \in {"user_agent", "Bot"} |->
          IF c = "user_agent" THEN Cell(<<"c","u","r","l">>) ELSE Cell(<<"G","P","T","B","o","t","s">>)],
      [c \in {"user_agent", "Bot"} |->
          IF c = "user_agent" THEN <<>> ELSE Cell(<<"g","p","t","b","o","t">>)],
      [c \in {"Bot"} |-> Cell(<<"g","p","t","b","o","t">>)],
      [c \in {"agent", "Bot"} |->
          IF c = "agent" THEN Cell(<<"c","l","a","u","d","e","-","w","e","b">>) ELSE <<>>],
      [c \in {"Page path"} |-> Cell(<<"/","s","h","o","p">>)] }

\* a row put into ai_bots by hand before the script is run
PresetBot ==
    /\ ingest_pc = "seed"
    /\ ai_bots = <<>>
    /\ \E row \in PresetRows : ai_bots' = <<row>>
    /\ UNCHANGED <<ingest_pc, patterns, batch, to_insert, crawler_logs, bot_csv, log_csv, total>>
    /\ UNCHANGED <<storeVars, gapVars, demoVars>>

\* ensure_ai_bots_seed(conn, bot_csv), the file being there
SeedBots ==
    /\ ingest_pc = "seed"
    /\ \E csv \in BotTables :
           /\ ai_bots' = EnsureAiBotsSeed(ai_bots, csv)
           /\ bot_csv' = <<csv>>
    /\ ingest_pc' = "load"
    /\ UNCHANGED <<patterns, batch, to_insert, crawler_logs, log_csv, total>>
    /\ UNCHANGED <<storeVars, gapVars, demoVars>>

\* ensure_ai_bots_seed(conn, bot_csv) with no file at bot_csv: pd.read_csv
\* raises FileNotFoundError, which nothing catches, and the script ends
SeedBotsNoFile ==
    /\ ingest_pc = "seed"
    /\ bot_csv' = <<MissingCsv>>
    /\ ingest_pc' = "raised"
    /\ UNCHANGED <<ai_bots, patterns, batch, to_insert, crawler_logs, log_csv, total>>
    /\ UNCHANGED <<storeVars, gapVars, demoVars>>

\* ensure_ai_bots_seed run once more on the same database, as by a later
\* run of the script
SeedBotsAgain ==
    /\ ingest_pc = "load"
    /\ \E csv \in BotTables :
           /\ ai_bots' = EnsureAiBotsSeed(ai_bots, csv)
           /\ bot_csv' = <<csv>>
    /\ UNCHANGED <<ingest_pc, patterns, batch, to_insert, crawler_logs, log_csv, total>>
    /\ UNCHANGED <<storeVars, gapVars, demoVars>>

\* ingest_server_logs(conn, log_csv, batch) with no file at log_csv: the
\* patterns are loaded, then pd.read_csv raises FileNotFoundError
IngestNoFile ==
    /\ ingest_pc = "load"
    /\ \E rows \in Perms(SeqToSet(ai_bots)) : patterns' = LoadAiBotsPatterns(rows)
    /\ \E b \in 1..MaxBatch : batch' = b
    /\ log_csv' = <<[exists |-> FALSE, rows |-> <<>>]>>
    /\ ingest_pc' = "raised"
    /\ UNCHANGED <<ai_bots, to_insert, crawler_logs, bot_csv, total>>
    /\ UNCHANGED <<storeVars, gapVars, demoVars>>

\* ingest_server_logs(conn, log_csv, batch): patterns are loaded
LoadPatterns ==
    /\ ingest_pc = "load"
    /\ \E rows \in Perms(SeqToSet(ai_bots)) : patterns' = LoadAiBotsPatterns(rows)
    /\ \E b \in 1..MaxBatch : batch' = b
    /\ log_csv' = <<[exists |-> TRUE, rows |-> <<>>]>>
    /\ ingest_pc' = "rows"
    /\ UNCHANGED <<ai_bots, to_insert, crawler_logs, bot_csv, total>>
    /\ UNCHANGED <<storeVars, gapVars, demoVars>>

\* the rows ingested so far
Ingested == Len(to_insert) + Len(crawler_logs) * batch

\* the mutant of BatchFull: the flush comes one tuple late
BatchFullLate(filled, size) == Len(filled) > size

\* if len(to_insert) >= batch
BatchFull(filled, size) == Len(filled) >= size

\* one turn of the loop over df.iterrows(), with its flush of a full batch
IngestRow ==
    /\ ingest_pc = "rows"
    /\ Ingested < MaxRows
    /\ \E row \in LogRows :
           /\ LET filled == Append(to_insert, RowTuple(patterns, row))
              IN  IF BatchFull(filled, batch)
                  THEN /\ crawler_logs' = Append(crawler_logs, filled)
                       /\ to_insert' = <<>>
                  ELSE /\ to_insert' = filled
                       /\ UNCHANGED crawler_logs
           /\ log_csv' = <<[log_csv[1] EXCEPT !.rows = Append(@, row)]>>
    /\ total' = total + 1
    /\ UNCHANGED <<ai_bots, ingest_pc, patterns, batch, bot_csv>>
    /\ UNCHANGED <<storeVars, gapVars, demoVars>>

\* the end of the rows: what is left in to_insert is flushed
FinishIngest ==
    /\ ingest_pc = "rows"
    /\ IF to_insert # <<>>
       THEN crawler_logs' = Append(crawler_logs, to_insert)
       ELSE UNCHANGED crawler_logs
    /\ to_insert' = <<>>
    /\ ingest_pc' = "done"
    /\ UNCHANGED <<ai_bots, patterns, batch, bot_csv, log_csv, total>>
    /\ UNCHANGED <<storeVars, gapVars, demoVars>>

NextIngest ==
    \/ PresetBot \/ SeedBots \/ SeedBotsNoFile \/ SeedBotsAgain
    \/ LoadPatterns \/ IngestNoFile \/ IngestRow \/ FinishIngest

\* one run of ingest.py
SpecIngest == Init /\ [][NextIngest]_vars

\* ------------------------------------------------------------ gap analysis

\* perform_gap_analysis(self, owned_entity, competitor_entities, top_gaps=15)
DefaultTopGaps == 15
\* TfidfVectorizer(stop_words="english", max_features=2000, ngram_range=(1, 2))
MaxFeatures == 2000
\* the words of scikit-learn's English stop list that the texts here use
StopWords == { <<"t","h","e">>, <<"a","n","d">>, <<"f","o","r">> }

\* scores are kept in units of 1 / Scale
Scale == 100000

Digits == {"0", "1", "2", "3", "4", "5", "6", "7", "8", "9"}
WordChars == SeqToSet(UpperChars) \cup SeqToSet(LowerChars) \cup Digits \cup {"_"}

\* token_pattern (?u)\b\w\w+\b: the runs of two or more word characters
RECURSIVE WordRunsFrom(_, _, _)
WordRunsFrom(s, i, cur) ==
    IF i > Len(s) THEN (IF Len(cur) >= 2 THEN <<cur>> ELSE <<>>)
    ELSE IF s[i] \notin WordChars
         THEN (IF Len(cur) >= 2 THEN <<cur>> ELSE <<>>) \o WordRunsFrom(s, i + 1, <<>>)
         ELSE WordRunsFrom(s, i + 1, Append(cur, s[i]))

\* the analyzer of the vectorizer: lower-case, tokenize, drop the stop
\* words, then the unigrams followed by the bigrams of what is left
Analyze(text) ==
    LET tokens == SelectSeq(WordRunsFrom(Lower(text), 1, <<>>), LAMBDA w : w \notin StopWords)
    IN  tokens \o AsSeq([i \in 1..(Len(tokens) - 1) |-> tokens[i] \o SP \o tokens[i + 1]])

\* 1000 * (ln((1 + n) / (1 + df)) + 1), rounded: the smoothed idf of a term
\* found in df of n documents
IdfMilli(n, df) ==
    LET r == <<1 + n, 1 + df>>
    IN  IF r[1] = r[2] THEN 1000
        ELSE IF r = <<3, 2>> \/ r = <<6, 4>> THEN 1405
        ELSE IF r = <<4, 2>> \/ r = <<6, 3>> THEN 1693
        ELSE IF r = <<4, 3>> THEN 1288
        ELSE IF r = <<5, 2>> THEN 1916
        ELSE IF r = <<5, 3>> THEN 1511
        ELSE IF r = <<5, 4>> THEN 1223
        ELSE IF r = <<6, 2>> THEN 2099
        ELSE 1182

RECURSIVE IsqrtFrom(_, _)
IsqrtFrom(n, x) ==
    LET y == (x + n \div x) \div 2
    IN  IF y >= x THEN x ELSE IsqrtFrom(n, y)

\* the integer part of the square root
Isqrt(n) == IF n = 0 THEN 0 ELSE IsqrtFrom(n, n)

RECURSIVE SumSeq(_)
SumSeq(xs) == IF xs = <<>> THEN 0 ELSE Head(xs) + SumSeq(Tail(xs))

\* the features the vectorizer keeps: every term when there are at most
\* max_features of them, else the max_features most frequent ones
Vocabulary(analyzed) ==
    LET all == UNION {SeqToSet(analyzed[i]) : i \in 1..Len(analyzed)}
        freq(t) == SumSeq(AsSeq([i \in 1..Len(analyzed) |-> CountOf(analyzed[i], t)]))
    IN  IF Cardinality(all) <= MaxFeatures THEN all
        ELSE CHOOSE V \in SUBSET all :
                 /\ Cardinality(V) = MaxFeatures
                 /\ \A t \in V, u \in all \ V : freq(t) >= freq(u)

\* the l2 norm of each row of weights
RowNorms(weight) ==
    AsSeq([i \in 1..Len(weight) |->
        Isqrt(SumSeq(AsSeq([j \in 1..Len(weight[i]) |-> weight[i][j] * weight[i][j]])))])

\* each weight divided by the norm of its row, in units of 1 / Scale
Normalised(weight, norm) ==
    AsSeq([i \in 1..Len(weight) |-> AsSeq([j \in 1..Len(weight[i]) |->
        IF norm[i] = 0 THEN 0 ELSE (weight[i][j] * Scale) \div norm[i]])])

\* the number of analysed texts each feature is found in
DocumentFrequencies(analyzed, features) ==
    AsSeq([j \in 1..Len(features) |->
        Cardinality({i \in 1..Len(analyzed) : features[j] \in SeqToSet(analyzed[i])})])

\* tf * idf of every feature in every analysed text
Weights(analyzed, features, df) ==
    AsSeq([i \in 1..Len(analyzed) |-> AsSeq([j \in 1..Len(features) |->
        CountOf(analyzed[i], features[j]) * IdfMilli(Len(analyzed), df[j])])])

\* norm='l2': every row of weights divided by its norm
NormalisedRows(weight) == Normalised(weight, RowNorms(weight))

\* the features in feature order, and their normalised weights
Vectorised(analyzed, features) ==
    [feature_names |-> features,
     matrix |-> NormalisedRows(Weights(analyzed, features,
                                       DocumentFrequencies(analyzed, features)))]

\* the analysed texts, vectorised over their vocabulary
Fitted(analyzed) == Vectorised(analyzed, SortedStrs(Vocabulary(analyzed)))

\* vectorizer.fit_transform(all_texts): the features and, per text, the
\* L2-normalised tf * idf of each feature, in units of 1 / Scale
FitTransform(all_texts) ==
    Fitted(AsSeq([i \in 1..Len(all_texts) |-> Analyze(all_texts[i])]))

\* the mutant of GapScores: owned minus competitor
GapScoresReversed(comp_scores, own_scores) ==
    AsSeq([j \in 1..Len(comp_scores) |-> own_scores[j] - comp_scores[j]])

\* gap_scores = comp_scores - own_scores
GapScores(comp_scores, own_scores) ==
    AsSeq([j \in 1..Len(comp_scores) |-> comp_scores[j] - own_scores[j]])

\* the mutant of Kept: a gap of zero is kept too
KeptNonNegative(gap) == gap >= 0

\* if gap_scores[idx] > 0
Kept(gap) == gap > 0

\* the entry appended to gaps for feature j
GapEntry(competitor, fit, comp_scores, own_scores, gap_scores, j) ==
    [term |-> fit.feature_names[j],
     competitor |-> competitor,
     competitor_strength |-> comp_scores[j],
     owned_strength |-> own_scores[j],
     gap_score |-> gap_scores[j],
     priority |-> IF gap_scores[j] * 10 > Scale THEN "High" ELSE "Medium"]

\* the mutant of SortedByGap: the smallest gap first
RECURSIVE SortedByGapAscending(_)
SortedByGapAscending(gaps) ==
    IF gaps = <<>> THEN <<>>
    ELSE LET front == SortedByGapAscending(SubSeq(gaps, 1, Len(gaps) - 1))
             x == gaps[Len(gaps)]
             k == Cardinality({i \in 1..Len(front) : front[i].gap_score <= x.gap_score})
         IN  SubSeq(front, 1, k) \o <<x>> \o SubSeq(front, k + 1, Len(front))

\* sorted(gaps, key=lambda x: x['gap_score'], reverse=True): stable
RECURSIVE SortedByGap(_)
SortedByGap(gaps) ==
    IF gaps = <<>> THEN <<>>
    ELSE LET front == SortedByGap(SubSeq(gaps, 1, Len(gaps) - 1))
             x == gaps[Len(gaps)]
             k == Cardinality({i \in 1..Len(front) : front[i].gap_score >= x.gap_score})
         IN  SubSeq(front, 1, k) \o <<x>> \o SubSeq(front, k + 1, Len(front))

\* The entries one competitor may add to gaps.  np.argsort(gap_scores)
\* [-top_gaps:] holds the top_gaps largest gaps, and which of several equal
\* gaps make the cut is not fixed by numpy: any largest-gap choice of
\* min(top_gaps, number kept) kept features (gap > 0) may be appended.  They
\* are appended from the largest gap down; features of equal gap are listed
\* here from the last feature to the first, as the reverse of a stable
\* argsort lists them.
CompetitorGaps(competitor, fit, row, top_gaps) ==
    LET own_scores == fit.matrix[1]
        comp_scores == fit.matrix[row]
        gap_scores == GapScores(comp_scores, own_scores)
        m == Len(gap_scores)
        kept == {j \in 1..m : Kept(gap_scores[j])}
        size == IF Cardinality(kept) < top_gaps THEN Cardinality(kept) ELSE top_gaps
        tops == {S \in SUBSET kept :
                    /\ Cardinality(S) = size
                    /\ \A j \in S, k \in kept \ S : gap_scores[k] <= gap_scores[j]}
        entries == AsSeq([a \in 1..m |->
                       GapEntry(competitor, fit, comp_scores, own_scores, gap_scores, m + 1 - a)])
    IN  {SortedByGap(SelectSeq(entries,
             LAMBDA e : \E j \in S : fit.feature_names[j] = e.term)) : S \in tops}

RECURSIVE AllGaps(_, _, _, _, _)
\* the lists gaps may hold after the loop over competitors i..
AllGaps(texts, competitors, fit, top_gaps, i) ==
    IF i > Len(competitors) THEN {<<>>}
    ELSE LET rest == AllGaps(texts, competitors, fit, top_gaps, i + 1)
         IN  IF competitors[i] \notin DOMAIN texts THEN rest
             ELSE {g \o r : g \in CompetitorGaps(competitors[i], fit, i + 1, top_gaps),
                            r \in rest}

\* CompetitiveGapAnalyzer.extract_text_per_entity
ExtractTextPerEntity(docs) ==
    [e \in DOMAIN docs |->
        Join(AsSeq([i \in 1..Len(docs[e]) |-> docs[e][i].clean_text]), SP)]

\* return {"error": ...}; the other fields are there so that every report
\* has the same shape
ErrorReport(message) ==
    [error |-> message, owned_entity |-> "", competitors |-> <<>>,
     total_gaps_identified |-> 0, top_gaps |-> <<>>]

\* CompetitiveGapAnalyzer.perform_gap_analysis: the reports it may return
PerformGapAnalysis(docs, owned_entity, competitor_entities, top_gaps) ==
    LET entity_texts == ExtractTextPerEntity(docs)
    IN  IF owned_entity \notin DOMAIN entity_texts THEN {ErrorReport("not found")}
        ELSE
        LET all_texts == <<entity_texts[owned_entity]>> \o
                AsSeq([i \in 1..Len(competitor_entities) |->
                    IF competitor_entities[i] \in DOMAIN entity_texts
                    THEN entity_texts[competitor_entities[i]] ELSE <<>>])
            fit == FitTransform(all_texts)
        IN  IF fit.feature_names = <<>> THEN {ErrorReport("Gap analysis failed")}
            ELSE {LET gaps == SubSeq(SortedByGap(g), 1,
                                     IF Len(g) < top_gaps THEN Len(g) ELSE top_gaps)
                  IN  [error |-> "", owned_entity |-> owned_entity,
                       competitors |-> competitor_entities,
                       total_gaps_identified |-> Len(gaps), top_gaps |-> gaps] :
                  g \in AllGaps(entity_texts, competitor_entities, fit, top_gaps, 1)}

\* the entities of an analysis and the documents crawled for them
GapEntities == {"Nike", "Adidas", "Puma"}
\* the entity an analysis is run for.  The analysis never looks at a name,
\* so a run for another entity is this one with the names exchanged.
OwnedEntities == {"Nike"}

TextDoc(text) == [clean_text |-> text]

GapDocLists ==
    { << TextDoc(<<"r","u","n","n","i","n","g"," ","s","h","o","e","s">>), TextDoc(<<"c","o","m","f","o","r","t">>) >>,
      << TextDoc(<<"r","u","n","n","i","n","g"," ","s","h","o","e","s"," ","c","o","m","f","o","r","t"," ","t","r","a","i","l"," ","d","u","r","a","b","i","l","i","t","y">>) >>,
      << TextDoc(<<"S","h","o","e","s"," ","s","h","o","e","s"," ","s","h","o","e","s",":"," ","t","h","e"," ","r","a","i","n">>) >>,
      << TextDoc(<<"t","h","e"," ","a">>) >> }

RECURSIVE SeqsUpTo(_, _)
\* the lists of one to n different members of S: the competitor names
\* an analysis is run with
SeqsUpTo(S, n) ==
    IF n = 0 THEN {}
    ELSE {<<x>> : x \in S} \cup
         {Append(p[1], p[2]) :
             p \in {p \in SeqsUpTo(S, n - 1) \X S : p[2] \notin SeqToSet(p[1])}}

\* analyzer.add_documents(entity_name, documents); as in the demo, the
\* documents of the entities are added before the analysis is run
AddDocuments ==
    /\ gap_call = <<>>
    /\ \E e \in GapEntities, ds \in GapDocLists :
           entity_documents' =
               [x \in DOMAIN entity_documents \cup {e} |->
                   IF x = e THEN ds ELSE entity_documents[x]]
    /\ UNCHANGED <<gap_call, report, simple_gaps>>
    /\ UNCHANGED <<storeVars, ingestVars, demoVars>>

\* analyzer.perform_gap_analysis(owned_entity, competitor_entities, top_gaps)
GapAnalysis ==
    /\ gap_call = <<>>
    /\ \E owned \in OwnedEntities, comps \in SeqsUpTo(GapEntities, MaxCompetitors),
          k \in (1..MaxTopGaps) \cup {DefaultTopGaps} :
           /\ gap_call' = << [owned_entity |-> owned, competitor_entities |-> comps,
                             top_gaps |-> k] >>
           /\ \E r \in PerformGapAnalysis(entity_documents, owned, comps, k) :
                  report' = <<r>>
    /\ UNCHANGED <<entity_documents, simple_gaps>>
    /\ UNCHANGED <<storeVars, ingestVars, demoVars>>

NextGap == AddDocuments \/ GapAnalysis

\* the documents of some entities, then one gap analysis
SpecGap == Init /\ [][NextGap]_vars

\* ------------------------------------------- gap analysis without sklearn

\* def detect_content_gaps_simple(competitor_docs, brand_docs, top_k=10)
DefaultTopK == 10
\* the lists of documents of a call hold at most MaxDocs documents
MaxDocs == 2
\* the values of top_k tried next to the default are 0..MaxTopK
MaxTopK == 2

\* comp_score > 0.01, in units of 1 / Scale
GapThreshold == Scale \div 100

\* where the run of word characters that starts at first ends
RunEnd(s, first) ==
    CHOOSE j \in first..Len(s) :
        /\ j = Len(s) \/ s[j + 1] \notin WordChars
        /\ \A k \in first..j : s[k] \in WordChars

\* [a-zA-Z]{3,} between two \b: a whole run of word characters, made of
\* three or more letters
Letters == SeqToSet(UpperChars) \cup SeqToSet(LowerChars)

IsSimpleToken(run) == Len(run) >= 3 /\ \A k \in 1..Len(run) : run[k] \in Letters

RECURSIVE SimpleTokensFrom(_, _)
\* the matches of the pattern in s from position i on
SimpleTokensFrom(s, i) ==
    IF \A j \in i..Len(s) : s[j] \notin WordChars THEN <<>>
    ELSE LET first == CHOOSE j \in i..Len(s) :
                          s[j] \in WordChars /\ \A k \in i..(j - 1) : s[k] \notin WordChars
             run == SubSeq(s, first, RunEnd(s, first))
         IN  (IF IsSimpleToken(run) THEN <<run>> ELSE <<>>)
             \o SimpleTokensFrom(s, first + Len(run))

\* simple_tokenize: re.findall(r'\b[a-zA-Z]{3,}\b', text.lower())
SimpleTokenize(text) ==
    IF text = <<>> THEN <<>> ELSE SimpleTokensFrom(Lower(text), 1)

\* all_docs_tokens: the tokens of the documents that have a clean_text
AllDocsTokens(docs) ==
    LET with_text == SelectSeq(docs, LAMBDA d : d.clean_text # <<>>)
    IN  AsSeq([i \in 1..Len(with_text) |-> SimpleTokenize(with_text[i].clean_text)])

\* doc_freq[word]
DocFreq(all_docs_tokens, word) ==
    Cardinality({i \in 1..Len(all_docs_tokens) : word \in SeqToSet(all_docs_tokens[i])})

\* 1000 * (math.log(total_docs / (doc_freq + 1)) + 1), rounded
IdfSimpleMilli(total_docs, doc_freq) ==
    LET r == <<total_docs, doc_freq + 1>>
    IN  IF r[1] = r[2] THEN 1000
        ELSE IF r = <<1, 2>> THEN 307
        ELSE IF r = <<2, 3>> THEN 595
        ELSE IF r = <<3, 2>> THEN 1405
        ELSE IF r = <<3, 4>> THEN 712
        ELSE IF r = <<4, 2>> THEN 1693
        ELSE IF r = <<4, 3>> THEN 1288
        ELSE 777

\* doc_scores of one document: tf_score * idf_score of each of its words,
\* in units of 1 / Scale
DocScores(all_docs_tokens, tokens) ==
    [word \in SeqToSet(tokens) |->
        (CountOf(tokens, word)
            * IdfSimpleMilli(Len(all_docs_tokens), DocFreq(all_docs_tokens, word))
            * (Scale \div 1000)) \div Len(tokens)]

\* tfidf_scores, the first value calculate_tf_idf returns
TfIdfScores(all_docs_tokens) ==
    AsSeq([i \in 1..Len(all_docs_tokens) |-> DocScores(all_docs_tokens, all_docs_tokens[i])])

RECURSIVE DocFreqKeys(_, _, _)
\* list(doc_freq.keys()), the second value calculate_tf_idf returns: the
\* words in the order doc_freq.update(set(tokens)) first met them.  The
\* order in which a set of str is iterated changes with the hash seed, so
\* the new words of one document may come in any order.
DocFreqKeys(all_docs_tokens, i, keys) ==
    IF i > Len(all_docs_tokens) THEN {keys}
    ELSE UNION {DocFreqKeys(all_docs_tokens, i + 1, keys \o new) :
                   new \in Perms(SeqToSet(all_docs_tokens[i]) \ SeqToSet(keys))}

\* sum(scores) / len(scores) if scores else 0, for
\* scores = [doc.get(word, 0) for doc in tfidf_scores]
AvgScore(tfidf_scores, word) ==
    IF tfidf_scores = <<>> THEN 0
    ELSE SumSeq(AsSeq([i \in 1..Len(tfidf_scores) |->
             IF word \in DOMAIN tfidf_scores[i] THEN tfidf_scores[i][word] ELSE 0]))
         \div Len(tfidf_scores)

\* the mutant of IsGap: the brand average is not looked at
IsGapWhateverBrand(comp_score, brand_score) == comp_score > GapThreshold

\* if comp_score > 0.01 and brand_score < comp_score * 0.5
IsGap(comp_score, brand_score) ==
    comp_score > GapThreshold /\ brand_score * 2 < comp_score

\* (word, gap_score, comp_score, brand_score)
SimpleGap(word, comp_score, brand_score) ==
    [word |-> word, gap_score |-> comp_score - brand_score,
     comp_score |-> comp_score, brand_score |-> brand_score]

\* gaps before the sort: an entry per flagged word, in vocabulary order
GapsOf(vocabulary, competitor_scores, brand_scores) ==
    SelectSeq(AsSeq([j \in 1..Len(vocabulary) |->
                  SimpleGap(vocabulary[j], AvgScore(competitor_scores, vocabulary[j]),
                            AvgScore(brand_scores, vocabulary[j]))]),
              LAMBDA g : IsGap(g.comp_score, g.brand_score))

\* [gap[0] for gap in gaps[:top_k]] of the sorted gaps, top_k >= 0
TopWords(gaps, top_k) ==
    AsSeq([a \in 1..(IF Len(gaps) < top_k THEN Len(gaps) ELSE top_k) |-> gaps[a].word])

\* the words returned for each order the vocabulary may have
GapTerms(vocabularies, competitor_scores, brand_scores, top_k) ==
    {TopWords(SortedByGap(GapsOf(vocabulary, competitor_scores, brand_scores)), top_k) :
        vocabulary \in vocabularies}

\* calculate_tf_idf(competitor_docs) and calculate_tf_idf(brand_docs), given
\* the tokens of the documents
GapTermsOfTokens(competitor_tokens, brand_tokens, top_k) ==
    GapTerms(DocFreqKeys(competitor_tokens, 1, <<>>),
             TfIdfScores(competitor_tokens), TfIdfScores(brand_tokens), top_k)

\* the vocabulary of the competitor documents in the orders it may be
\* listed, and the scores of the two calculate_tf_idf calls
DetectionScores(competitor_docs, brand_docs) ==
    [vocabularies |-> DocFreqKeys(AllDocsTokens(competitor_docs), 1, <<>>),
     competitor |-> TfIdfScores(AllDocsTokens(competitor_docs)),
     brand |-> TfIdfScores(AllDocsTokens(brand_docs))]

\* detect_content_gaps_simple from the scores on
DetectedWith(competitor_docs, scores, top_k) ==
    IF competitor_docs = <<>> THEN {<<>>}
    ELSE GapTerms(scores.vocabularies, scores.competitor, scores.brand, top_k)

\* detect_content_gaps_simple: the lists it may return
DetectContentGapsSimple(competitor_docs, brand_docs, top_k) ==
    DetectedWith(competitor_docs, DetectionScores(competitor_docs, brand_docs), top_k)

RECURSIVE Repeat(_, _)
Repeat(s, n) == IF n = 0 THEN <<>> ELSE s \o Repeat(s, n - 1)

\* the clean_text of the documents of the calls: two short pages that share
\* a word, a page with digits, short words and punctuation, a page with no
\* text, and a long page in which one word is rare
SimpleTexts ==
    { <<"t","r","a","i","l"," ","r","u","n"," ","r","u","n">>,
      <<"R","u","n",","," ","4","x","4"," ","g","o"," ","a","b","c","1"," ","s","h","o","e","s">>,
      <<>>,
      <<"g","a","p">> \o Repeat(<<" ","r","u","n">>, 31) }

\* the lists of at most n documents
SimpleDocLists(n) == UNION {[1..m -> {TextDoc(t) : t \in SimpleTexts}] : m \in 0..n}

\* gap_terms = detect_content_gaps_simple(competitor_docs, brand_docs, top_k)
DetectSimple ==
    /\ simple_gaps = <<>>
    /\ \E competitor_docs \in SimpleDocLists(MaxDocs), brand_docs \in SimpleDocLists(MaxDocs) :
           \E scores \in {DetectionScores(competitor_docs, brand_docs)},
              top_k \in (0..MaxTopK) \cup {DefaultTopK} :
               \E gap_terms \in DetectedWith(competitor_docs, scores, top_k) :
                   simple_gaps' = << [competitor_docs |-> competitor_docs,
                                      brand_docs |-> brand_docs,
                                      top_k |-> top_k,
                                      gap_terms |-> gap_terms] >>
    /\ UNCHANGED <<entity_documents, gap_call, report>>
    /\ UNCHANGED <<storeVars, ingestVars, demoVars>>

NextSimple == DetectSimple

\* one call of detect_content_gaps_simple
SpecSimple == Init /\ [][NextSimple]_vars

\* ------------------------------------------- the demo's input files

\* a path at which there is no file
NoSuchFile == [exists |-> FALSE, header |-> FALSE, rows |-> <<>>]

Scheme == <<"h","t","t","p","s",":","/","/">>

\* str.startswith
StartsWith(s, prefix) ==
    Len(s) >= Len(prefix) /\ SubSeq(s, 1, Len(prefix)) = prefix

\* the lists of at most n members of S
ListsUpTo(S, n) == UNION {[1..k -> S] : k \in 0..n}

\* s[:n]
Slice(s, n) == SubSeq(s, 1, IF Len(s) < n THEN Len(s) ELSE n)

\* the cells of a URL file: a URL, a URL after a blank, a host without scheme
UrlCells ==
    { Scheme \o Host \o <<"/","f","a","q">>,
      <<" ">> \o Scheme \o Host \o <<"/","s","h","o","p">>,
      Host \o <<"/","f","a","q">> }

\* the URL files: none, and those with or without a header line
UrlFiles ==
    {NoSuchFile} \cup
    {[exists |-> TRUE, header |-> h, rows |-> r] :
        h \in BOOLEAN, r \in ListsUpTo(UrlCells, MaxUrls)}

\* the rows of a bot table: the Bot and the Page path columns
BotRows ==
    [bot : {"", "Unknown", "GPTBot", "ClaudeBot"},
     path : {<<>>, <<"f","a","q">>, <<"/","f","a","q">>}]

BotFiles ==
    {NoSuchFile} \cup
    {[exists |-> TRUE, header |-> TRUE, rows |-> r] : r \in ListsUpTo(BotRows, 1)}

\* the Page path cells of a server log
LogPaths ==
    { <<>>, <<"/">>, <<"/","b","l","a","n","k">>, <<"f","a","q">>,
      <<"/","f","a","q">>, <<"/","s","h","o","p">> }

LogFiles ==
    {NoSuchFile} \cup
    {[exists |-> TRUE, header |-> TRUE, rows |-> r] : r \in ListsUpTo(LogPaths, MaxUrls)}

\* if not url.startswith('/'): url = '/' + url
NormalisedPath(path) == IF StartsWith(path, <<"/">>) THEN path ELSE <<"/">> \o path

\* load_urls_from_csv(filepath): with a header line the url cells that
\* start with http, stripped; without one the stripped lines that start
\* with http; nothing, after a message, when there is no file
LoadUrlsFromCsv(f) ==
    IF ~f.exists THEN [raised |-> FALSE, urls |-> <<>>]
    ELSE IF f.header
    THEN [raised |-> FALSE,
          urls |-> LET kept == SelectSeq(f.rows, LAMBDA c : StartsWith(c, <<"h","t","t","p">>))
                   IN  [k \in 1..Len(kept) |-> Strip(kept[k], {" "})]]
    ELSE [raised |-> FALSE,
          urls |-> LET lines == [k \in 1..Len(f.rows) |-> Strip(f.rows[k], {" "})]
                   IN  SelectSeq(lines, LAMBDA c : StartsWith(c, <<"h","t","t","p">>))]

\* AIBotTracker.load_bot_table(filepath): the named bots and, for each row
\* of a named bot that has a path, the bot and the normalised path; the
\* date and the status code are copied from the row
LoadBotTable(f) ==
    IF ~f.exists THEN [raised |-> FALSE, bots |-> {}, interactions |-> <<>>]
    ELSE LET named == SelectSeq(f.rows, LAMBDA r : r.bot # "" /\ r.bot # "Unknown")
             hits == SelectSeq(named, LAMBDA r : r.path # <<>>)
         IN  [raised |-> FALSE,
              bots |-> {named[k].bot : k \in 1..Len(named)},
              interactions |-> [k \in 1..Len(hits) |->
                                   [bot |-> hits[k].bot, url |-> NormalisedPath(hits[k].path)]]]

RECURSIVE PathsFrom(_, _, _)
\* the loop of load_server_logs over the rows not yet read
PathsFrom(rows, path_list, url_limit) ==
    IF rows = <<>> THEN path_list
    ELSE LET url == NormalisedPath(IF Head(rows) = <<>> THEN <<"/">> ELSE Head(rows))
         IN  IF url \in {<<"/","b","l","a","n","k">>, <<"/">>} \/ url \in SeqToSet(path_list)
             THEN PathsFrom(Tail(rows), path_list, url_limit)
             ELSE IF url_limit # 0 /\ Len(path_list) + 1 >= url_limit
             THEN Append(path_list, url)
             ELSE PathsFrom(Tail(rows), Append(path_list, url), url_limit)

\* AIBotTracker.load_server_logs(filepath, url_limit): url_limit 0 for None
LoadServerLogs(f, url_limit) ==
    IF ~f.exists THEN [raised |-> FALSE, paths |-> <<>>]
    ELSE [raised |-> FALSE, paths |-> PathsFrom(f.rows, <<>>, url_limit)]

\* prepare_urls(url_limit) and the load_bot_table call of run(): where run
\* is after them, and what it holds
Prepared(source, csv, found, bot_table, url_limit) ==
    LET loaded == LoadUrlsFromCsv(csv)
        table == LoadBotTable(bot_table)
        start == [call |-> "run", pc |-> "crawling", source |-> source,
                  files |-> <<csv, bot_table>>, urls_to_crawl |-> <<>>, bots |-> {}, bot_interactions |-> <<>>,
                  paths |-> <<>>]
    IN  IF source = "neither" THEN [start EXCEPT !.pc = "returned"]
        ELSE IF source = "csv" /\ loaded.raised THEN [start EXCEPT !.pc = "raised"]
        ELSE IF table.raised
        THEN [start EXCEPT !.pc = "raised",
                           !.urls_to_crawl = IF source = "csv" THEN Slice(loaded.urls, url_limit)
                                             ELSE Slice(found, url_limit)]
        ELSE [start EXCEPT !.urls_to_crawl = IF source = "csv" THEN Slice(loaded.urls, url_limit)
                                             ELSE Slice(found, url_limit),
                           !.bots = table.bots,
                           !.bot_interactions = table.interactions]

\* IntegratedCrawlerDemo.run up to its crawl loop, the demo constructed
\* with a CSV of URLs, with a website whose links load_urls_from_website
\* found, or with neither
RunDemo ==
    /\ prepared = <<>>
    /\ \E source \in {"csv", "website", "neither"}, csv \in UrlFiles,
          found \in ListsUpTo({Scheme \o u : u \in StoreUrls}, 1),
          bot_table \in BotFiles, url_limit \in 1..MaxUrls :
           prepared' = <<Prepared(source, csv, found, bot_table, url_limit)>>
    /\ UNCHANGED <<stores, disk, keyword_gaps>>
    /\ UNCHANGED <<storeVars, ingestVars, gapVars, opened_at, loop, agentVars>>

\* a call of load_server_logs on its own
ReadServerLog ==
    /\ prepared = <<>>
    /\ \E log \in LogFiles, url_limit \in 0..MaxUrls :
           LET loaded == LoadServerLogs(log, url_limit)
           IN  prepared' = <<[call |-> "load_server_logs",
                              pc |-> IF loaded.raised THEN "raised" ELSE "returned",
                              source |-> "csv", files |-> <<log>>, urls_to_crawl |-> <<>>, bots |-> {},
                              bot_interactions |-> <<>>, paths |-> loaded.paths]>>
    /\ UNCHANGED <<stores, disk, keyword_gaps>>
    /\ UNCHANGED <<storeVars, ingestVars, gapVars, opened_at, loop, agentVars>>

NextInputs == RunDemo \/ ReadServerLog \/ (\E i \in Processes : Construct(i))

\* the demo reading its input files and constructing its store
SpecInputs == Init /\ [][NextInputs]_vars

\* ------------------------------------------------- keyword gaps

\* ContentStore.get_by_entity(entity_name): the ids of its documents
GetByEntity(docs, entity_name) ==
    {id \in DOMAIN docs : docs[id].entity_name = entity_name}

\* the keywords of the documents of an entity that have any:
\* client_keywords and competitor_keywords of get_keyword_gaps
EntityKeywords(docs, entity_name) ==
    UNION {SeqToSet(docs[id].keywords.list) :
              id \in {id \in GetByEntity(docs, entity_name) :
                         ~docs[id].keywords.is_none /\ docs[id].keywords.list # <<>>}}

\* the mutant of MissingKeywords: the client's keywords are not taken out
MissingKeywordsOfAnyone(docs, client, competitor) ==
    EntityKeywords(docs, competitor)

\* missing_keywords = competitor_keywords - client_keywords
MissingKeywords(docs, client, competitor) ==
    EntityKeywords(docs, competitor) \ EntityKeywords(docs, client)

\* get_keyword_gaps(client_entity, competitor_entities): the dicts it may
\* return, a key for each competitor with missing keywords and list(set)
\* in whatever order the set is iterated
GetKeywordGaps(docs, client, competitors) ==
    LET keys == {c \in SeqToSet(competitors) : MissingKeywords(docs, client, c) # {}}
        lists == UNION {Perms(MissingKeywords(docs, client, c)) : c \in keys}
    IN  {g \in [keys -> lists] :
            \A c \in keys : SeqToSet(g[c]) = MissingKeywords(docs, client, c)}

\* the entity names a call is made with: two with pages, one with none
QueryNames == {"Nike", "Adidas", "Puma"}

\* store.get_keyword_gaps(client, competitors) on the store of process i
KeywordGapsCall(i) ==
    /\ keyword_gaps = <<>>
    /\ stores[i].pc = "open"
    /\ \E client \in QueryNames, competitors \in ListsUpTo(QueryNames, MaxCompetitors) :
           \E g \in GetKeywordGaps(stores[i].documents, client, competitors) :
               keyword_gaps' = <<[store |-> i, client |-> client,
                                  competitors |-> competitors, gaps |-> g]>>
    /\ UNCHANGED <<stores, disk, prepared>>
    /\ UNCHANGED <<storeVars, ingestVars, gapVars, opened_at, loop, agentVars>>

\* the steps of process 1 before it asks for keyword gaps
FillStore == keyword_gaps = <<>> /\ (Construct(1) \/ Add(1) \/ Write(1))

NextQuery == FillStore \/ KeywordGapsCall(1)

\* one process that fills its store and then asks it once for keyword gaps
SpecQuery == Init /\ [][NextQuery]_vars

\* ------------------------------------------ priorities of gap terms

\* a stored document of an entity, as far as classification reads it
EntityDoc(entity_name, text) == [entity_name |-> entity_name, clean_text |-> text]

\* count > 15 and count > 8
HighCount == 15
MediumCount == 8

\* frequency_percent > 0.1 and > 0.05, frequency_percent being
\* count / total_words * 100; the texts here are far from the totals at
\* which rounding could decide
HighFrequency(count, total_words) == total_words > 0 /\ count * 1000 > total_words
MediumFrequency(count, total_words) == total_words > 0 /\ count * 2000 > total_words

High == <<"H","i","g","h">>
Medium == <<"M","e","d","i","u","m">>
Low == <<"L","o","w">>

\* the priority of a term that occurs count times among total_words
PriorityOf(count, total_words) ==
    IF count > HighCount /\ HighFrequency(count, total_words) THEN High
    ELSE IF count > MediumCount /\ MediumFrequency(count, total_words) THEN Medium
    ELSE Low

\* word_freq.get(term.lower(), 0)
TermCount(words, term) == Cardinality({k \in 1..Len(words) : words[k] = Lower(term)})

\* the entry appended for one term; frequency_percent, a rounding of the
\* quotient that decided the priority, is left out
PrioritizedEntry(term, words, competitor_docs) ==
    [term |-> term,
     count |-> TermCount(words, term),
     priority |-> PriorityOf(TermCount(words, term), Len(words)),
     competitors_using |->
         {competitor_docs[k].entity_name :
             k \in {k \in 1..Len(competitor_docs) :
                       /\ competitor_docs[k].clean_text # <<>>
                       /\ Contains(Lower(competitor_docs[k].clean_text), Lower(term))}}]

\* the key of the sort: (priority, count), tuples compared item by item
\* and the priorities as str
KeyLess(a, b) ==
    \/ StrLess(a.priority, b.priority)
    \/ a.priority = b.priority /\ a.count < b.count

RECURSIVE SortedByKey(_)
\* results.sort(key=..., reverse=True): largest key first, entries of equal
\* key in the order they had
SortedByKey(results) ==
    IF results = <<>> THEN <<>>
    ELSE LET first == CHOOSE k \in 1..Len(results) :
                          /\ \A j \in 1..Len(results) : ~KeyLess(results[k], results[j])
                          /\ \A j \in 1..(k - 1) : KeyLess(results[j], results[k])
         IN  <<results[first]>>
             \o SortedByKey(SubSeq(results, 1, first - 1)
                            \o SubSeq(results, first + 1, Len(results)))

\* classify_and_prioritize_gaps(gap_terms, competitor_docs)
ClassifyAndPrioritizeGaps(gap_terms, competitor_docs) ==
    IF gap_terms = <<>> THEN <<>>
    ELSE LET with_text == SelectSeq(competitor_docs, LAMBDA d : d.clean_text # <<>>)
             all_competitor_text ==
                 Join(AsSeq([k \in 1..Len(with_text) |-> with_text[k].clean_text]), SP)
             all_words == SimpleTokenize(all_competitor_text)
         IN  SortedByKey([k \in 1..Len(gap_terms) |->
                             PrioritizedEntry(gap_terms[k], all_words, competitor_docs)])

\* competitor pages: one with a frequent, a less frequent and a rare word,
\* a short one, and one without text
PriorityDocs ==
    { EntityDoc("Adidas", <<"g","a","p">> \o Repeat(<<" ","r","u","n">>, 16)
                                          \o Repeat(<<" ","f","a","r">>, 9)),
      EntityDoc("Puma", <<"T","r","a","i","l"," ","r","u","n">>),
      EntityDoc("Puma", <<>>) }

\* the gap terms of a call
PriorityTerms == {<<"r","u","n">>, <<"f","a","r">>, <<"g","a","p">>, <<"t","r","a","i","l">>}

\* the most gap terms of a call
MaxTerms == 3

\* gaps = classify_and_prioritize_gaps(gap_terms, competitor_docs), the
\* one call main makes
Classify ==
    /\ classified = <<>>
    /\ \E gap_terms \in ListsUpTo(PriorityTerms, MaxTerms),
          competitor_docs \in ListsUpTo(PriorityDocs, MaxDocs) :
           classified' = <<[gap_terms |-> gap_terms, competitor_docs |-> competitor_docs,
                            gaps |-> ClassifyAndPrioritizeGaps(gap_terms, competitor_docs)]>>
    /\ UNCHANGED <<agent, shareVars, opened_at, loop>>
    /\ UNCHANGED <<storeVars, ingestVars, gapVars>>

NextClassify == Classify

\* calls of classify_and_prioritize_gaps
SpecClassify == Init /\ [][NextClassify]_vars

\* ------------------------------------------------ extract_response

\* the prompts of a run
Prompts == <<"best running shoes", "trail shoes for rain">>

\* the text an extractor found on an answer page
ExtractedText == "Nike makes running shoes."

\* what extract_perplexity, extract_chatgpt, extract_copilot and
\* extract_gemini may return: their messages, a text, and for the two that
\* clean the text whatever the cleaning leaves of it
Answers(llm) ==
    IF llm = "ChatGPT"
    THEN {"Could not send prompt", "Could not extract answer", ExtractedText}
    ELSE IF llm = "Gemini"
    THEN {"Could not find input box", "Could not submit prompt",
          "Could not extract answer", ExtractedText}
    ELSE {"Could not find input box", "Could not submit prompt",
          "Could not extract answer", ExtractedText, ""}

\* how one attempt may go: self.llms[llm] raises KeyError for a name that
\* is not a key; driver.get, and what extract_chatgpt calls outside its try
\* blocks, may raise TimeoutException or another exception; otherwise the
\* extractor returns
Outcomes(llm) ==
    IF llm \notin Llms THEN {[raised |-> "error", answer |-> None]}
    ELSE {[raised |-> "", answer |-> a] : a \in Answers(llm)}
         \cup {[raised |-> e, answer |-> None] : e \in {"timeout", "error"}}

\* status of an answer returned by an extractor
StatusOf(answer) ==
    IF /\ answer # ""
       /\ answer # "Could not extract answer"
       /\ answer # "Could not send prompt"
       /\ answer # "Could not find input box"
    THEN "success" ELSE "failed"

\* the mutant of Retries: one retry more than max_retries
RetriesOnceMore(status, retry_count, max_retries) ==
    status = "failed" /\ retry_count <= max_retries

\* if status == "failed" and retry_count < max_retries
Retries(status, retry_count, max_retries) ==
    status = "failed" /\ retry_count < max_retries

\* the dict appended to results: prompt and timestamp are copied into it
Record(a, answer, status) ==
    [llm |-> a.llm, prompt |-> Prompts[a.prompt_index], answer |-> answer, status |-> status]

\* what one activation of extract_response makes of the agent
Attempted(a, outcome) ==
    IF outcome.raised # ""
    THEN [NoCall(Append(a.results, Record(a, None, outcome.raised)))
             EXCEPT !.attempts = a.attempts + 1, !.last = outcome.raised]
    ELSE IF Retries(StatusOf(outcome.answer), a.retry_count, a.max_retries)
    THEN [a EXCEPT !.retry_count = @ + 1, !.attempts = @ + 1, !.last = "failed"]
    ELSE [NoCall(Append(a.results, Record(a, outcome.answer, StatusOf(outcome.answer))))
             EXCEPT !.attempts = a.attempts + 1, !.last = StatusOf(outcome.answer)]

\* self.extract_response(llm, prompt, idx) is called, by run with the
\* default max_retries or by another caller with its own
CallExtractResponse ==
    /\ agent.pc = "idle"
    /\ Len(agent.results) < Len(Prompts)
    /\ \E llm \in Llms \cup {"Claude"}, max_retries \in 0..MaxRetries :
           agent' = [pc |-> "attempt", llm |-> llm,
                     prompt_index |-> Len(agent.results) + 1, retry_count |-> 0,
                     max_retries |-> max_retries, attempts |-> 0, last |-> "",
                     results |-> agent.results]
    /\ UNCHANGED <<classified, shareVars, opened_at, loop>>
    /\ UNCHANGED <<storeVars, ingestVars, gapVars>>

\* one activation of extract_response: it appends a record and the call
\* ends, or it calls itself with retry_count + 1
Attempt ==
    /\ agent.pc = "attempt"
    /\ \E outcome \in Outcomes(agent.llm) : agent' = Attempted(agent, outcome)
    /\ UNCHANGED <<classified, shareVars, opened_at, loop>>
    /\ UNCHANGED <<storeVars, ingestVars, gapVars>>

NextAgent == CallExtractResponse \/ Attempt

\* the agent working through its prompts
SpecAgent == Init /\ [][NextAgent]_vars

\* ------------------------------------------------------------ properties

\* the step of Spec that is one add_document call
IsAdd == doc # <<>> /\ doc' = <<>>

\* C1: in every add_document call, the stored documents crawled from the
\* URL of the added document are stored under its doc_id, and when that
\* doc_id is already stored the result keeps the stored first_seen and has
\* last_updated set to the time of the add, never earlier than before.
C1_FirstSeenKept ==
    [][IsAdd =>
        LET d == doc[1]
        IN  /\ \A id \in DOMAIN documents :
                   documents[id].url = d.url => id = d.doc_id
            /\ documents'[d.doc_id].url = d.url
            /\ d.doc_id \in DOMAIN documents =>
                   /\ documents'[d.doc_id].first_seen = documents[d.doc_id].first_seen
                   /\ documents'[d.doc_id].last_updated = now
                   /\ documents'[d.doc_id].last_updated >= documents[d.doc_id].last_updated
      ]_vars

\* a stored document was added again at a later time: it still carries its
\* first first_seen, and a newer last_updated
C1_Witness ==
    /\ doc = <<>>
    /\ \E id \in DOMAIN documents :
           /\ documents[id].first_seen = 0
           /\ documents[id].last_updated = MaxClock

\* title, clean_text and heading texts are all empty
TextIsEmpty(d) == d.title = <<>> /\ d.clean_text = <<>> /\ HeadingTexts(d) = <<>>

\* some whitespace-separated token of the lower-cased text keeps three or
\* more characters once its leading and trailing punctuation is stripped
HasLongToken(d) ==
    LET raw == Split(DocText(d))
    IN  \E i \in 1..Len(raw) : Len(Strip(raw[i], Punct)) >= 3

\* C2 as stated: every stored keyword list has at most TopN entries and is
\* empty only when the document's text is empty.
C2_EmptyOnlyWhenTextEmpty ==
    \A id \in DOMAIN documents :
        /\ Len(documents[id].keywords.list) <= TopN
        /\ documents[id].keywords.list = <<>> => TextIsEmpty(documents[id])

\* C2 amended: every stored keyword list has at most TopN entries and is
\* empty exactly when the text has no token of three or more characters.
C2_EmptyIffNoLongToken ==
    \A id \in DOMAIN documents :
        /\ ~documents[id].keywords.is_none
        /\ Len(documents[id].keywords.list) <= TopN
        /\ documents[id].keywords.list = <<>> <=> ~HasLongToken(documents[id])

\* one stored document has more than TopN different tokens and TopN
\* keywords, another has text and no keyword
C2_Witness ==
    /\ \E id \in DOMAIN documents :
           /\ Cardinality(SeqToSet(KeywordWords(DocText(documents[id])))) > TopN
           /\ Len(documents[id].keywords.list) = TopN
    /\ \E id \in DOMAIN documents :
           /\ ~TextIsEmpty(documents[id])
           /\ documents[id].keywords.list = <<>>

RECURSIVE Flatten(_)
Flatten(seqs) == IF seqs = <<>> THEN <<>> ELSE Head(seqs) \o Flatten(Tail(seqs))

\* every tuple ingest_server_logs has built so far, in row order
Recorded == Flatten(crawler_logs) \o to_insert

\* the loaded patterns that match a user agent
PatternHits(ua) == {i \in 1..Len(patterns) : Search(patterns[i].regex, ua)}

\* the loaded patterns whose name is the row's Bot value up to letter case
NameHits(row) ==
    IF "Bot" \in DOMAIN row /\ row["Bot"] # <<>>
    THEN {i \in 1..Len(patterns) : Lower(patterns[i].name) = Lower(row["Bot"][1])}
    ELSE {}

\* C3: a row whose user agent is matched by some loaded pattern is recorded
\* 'high' with the bot_id and name of the first pattern, in load order,
\* that matches it; with 'GPTBot' alone seeded, 'Mozilla/5.0 GPTBot/1.0' is
\* attributed to 'GPTBot'.
C3_FirstPatternWins ==
    \A k \in 1..Len(Recorded) :
        LET t == Recorded[k]
            hits == PatternHits(t.user_agent)
        IN  /\ hits # {} =>
                /\ t.detection_confidence = "high"
                /\ \E i \in hits :
                       /\ \A j \in hits : i <= j
                       /\ t.bot_id = <<patterns[i].bot_id>>
                       /\ t.detected_name = <<patterns[i].name>>
            /\ ( /\ t.user_agent = <<"M","o","z","i","l","l","a","/","5",".","0"," ","G","P","T","B","o","t","/","1",".","0">>
                 /\ Len(patterns) = 1
                 /\ patterns[1].name = <<"G","P","T","B","o","t">>
                 /\ patterns[1].regex = SeedPattern(<<"G","P","T","B","o","t">>) ) =>
                   /\ t.detection_confidence = "high"
                   /\ t.detected_name = <<<<"G","P","T","B","o","t">>>>

\* two loaded patterns match a recorded user agent and the second of them
\* is not the one recorded
C3_Witness ==
    \E k \in 1..Len(Recorded) :
        /\ Cardinality(PatternHits(Recorded[k].user_agent)) = 2
        /\ Recorded[k].detection_confidence = "high"
        /\ \E i \in PatternHits(Recorded[k].user_agent) :
               Recorded[k].detected_name # <<patterns[i].name>>

\* the row has no value in a user-agent column
NoUserAgentValue(row) ==
    \A c \in {"user_agent", "User-Agent", "useragent", "agent"} :
        c \notin DOMAIN row \/ row[c] = <<>>

\* C4: a row with no user-agent value whose Bot column equals a registered
\* name up to letter case is recorded 'medium', attributed to that bot.
C4_BotColumnIsMedium ==
    \A k \in 1..Len(Recorded) :
        LET t == Recorded[k]
        IN  NoUserAgentValue(t.raw_log) /\ NameHits(t.raw_log) # {} =>
                /\ t.detection_confidence = "medium"
                /\ \E i \in NameHits(t.raw_log) : t.detected_name = <<patterns[i].name>>

\* C5: a row that no loaded pattern matches and whose Bot column equals no
\* registered name up to letter case is recorded 'low' with null bot_id and
\* detected_name; and a recorded row is 'low' exactly when both are null.
C5_LowIffUnattributed ==
    \A k \in 1..Len(Recorded) :
        LET t == Recorded[k]
        IN  /\ PatternHits(t.user_agent) = {} /\ NameHits(t.raw_log) = {} =>
                /\ t.detection_confidence = "low"
                /\ t.bot_id = <<>>
                /\ t.detected_name = <<>>
            /\ t.detection_confidence = "low" <=>
                   (t.bot_id = <<>> /\ t.detected_name = <<>>)
            /\ t.bot_id = <<>> <=> t.detected_name = <<>>

\* with a bot registered, a row with a Bot value that names no bot and a
\* user agent that no pattern matches is recorded unattributed, next to a
\* row that is attributed
C5_Witness ==
    /\ patterns # <<>>
    /\ \E k \in 1..Len(Recorded) :
           /\ Recorded[k].detection_confidence = "low"
           /\ "Bot" \in DOMAIN Recorded[k].raw_log
           /\ Recorded[k].raw_log["Bot"] # <<>>
           /\ Recorded[k].user_agent # <<>>
    /\ \E k \in 1..Len(Recorded) : Recorded[k].detection_confidence = "medium"

\* the content type C8 states for a URL: '/docs' is its only marker of
\* documentation
StatedContentType(url) ==
    LET u == Lower(url)
    IN  IF Contains(u, <<"/","f","a","q">>) THEN "faq"
        ELSE IF Contains(u, <<"/","b","l","o","g">>) \/ Contains(u, <<"/","a","r","t","i","c","l","e">>) THEN "blog_post"
        ELSE IF Contains(u, <<"/","p","r","o","d","u","c","t">>) \/ Contains(u, <<"/","s","h","o","p">>) THEN "product_page"
        ELSE IF Contains(u, <<"/","d","o","c","s">>) THEN "documentation"
        ELSE "other"

ValidLdJson(page) ==
    SelectSeq(page, LAMBDA e : e.tag = "script" /\ e.attr = LdJson /\ e.json.valid)

\* C9: a document crawled from a page with a valid FAQPage JSON-LD block
\* lists the block in raw_json_ld, holds one faq_items entry per mainEntity
\* item, and has has_schema and has_faq set.
C9_FaqPageExtracted ==
    \A i \in 1..Len(fetched) : \A k \in 1..Len(ValidLdJson(fetched[i])) :
        LET data == ValidLdJson(fetched[i])[k].json
            sd == doc[1].structured_data
        IN  data.isDict /\ data.type = "FAQPage" =>
                /\ \E j \in 1..Len(sd.raw_json_ld) : sd.raw_json_ld[j] = data
                /\ Len(sd.faq_items) = Len(data.mainEntity)
                /\ \A j \in 1..Len(data.mainEntity) :
                       sd.faq_items[j] = [question |-> data.mainEntity[j].name,
                                          answer |-> data.mainEntity[j].acceptedAnswer]
                /\ doc[1].metrics.has_schema
                /\ doc[1].metrics.has_faq

\* C10: once add_document has returned, the file holds one entry per
\* doc_id of documents, each the full current document.
C10_FileHoldsCorpus ==
    IF file.exists
    THEN /\ DOMAIN file.data = DOMAIN documents
         /\ \A id \in DOMAIN documents : file.data[id] = AsJson(documents[id])
    ELSE documents = NoDocuments

\* two documents are stored, one of them added a second time
C10_Witness ==
    /\ file.exists
    /\ Cardinality(DOMAIN documents) = 2
    /\ \E id \in DOMAIN documents :
           documents[id].first_seen < documents[id].last_updated


\* ---- gap analysis: C6, C7

\* a gap analysis has returned a report that is not an error
Reported == report # <<>> /\ report[1].error = ""

\* the texts of the analysed call, owned first
CallTexts ==
    LET texts == ExtractTextPerEntity(entity_documents)
        comps == gap_call[1].competitor_entities
    IN  <<texts[gap_call[1].owned_entity]>> \o
        AsSeq([i \in 1..Len(comps) |->
            IF comps[i] \in DOMAIN texts THEN texts[comps[i]] ELSE <<>>])

\* the TF-IDF score of a term in text number row of the call
StrengthOf(fit, row, term) ==
    LET j == CHOOSE j \in 1..Len(fit.feature_names) : fit.feature_names[j] = term
    IN  fit.matrix[row][j]

\* C6: every reported gap has gap_score = competitor TF-IDF - owned TF-IDF
\* of its term, and that score is positive: no term whose competitor score
\* is at most its owned score is reported.
C6_GapIsPositiveDifference ==
    Reported =>
        \A fit \in {FitTransform(CallTexts)} :
        LET comps == gap_call[1].competitor_entities
            gaps == report[1].top_gaps
        IN  \A a \in 1..Len(gaps) :
                /\ gaps[a].term \in SeqToSet(fit.feature_names)
                /\ \E i \in 1..Len(comps) :
                       /\ comps[i] = gaps[a].competitor
                       /\ gaps[a].competitor_strength = StrengthOf(fit, i + 1, gaps[a].term)
                /\ gaps[a].owned_strength = StrengthOf(fit, 1, gaps[a].term)
                /\ gaps[a].gap_score = gaps[a].competitor_strength - gaps[a].owned_strength
                /\ gaps[a].competitor_strength > gaps[a].owned_strength
                /\ gaps[a].gap_score > 0

\* a report listing gaps, made where some feature scores no higher for the
\* competitor than for the owned entity
C6_Witness ==
    /\ Reported
    /\ report[1].top_gaps # <<>>
    /\ LET fit == FitTransform(CallTexts)
       IN  \E j \in 1..Len(fit.feature_names) :
               /\ fit.matrix[2][j] > 0
               /\ fit.matrix[2][j] <= fit.matrix[1][j]

\* a report of an analysis of one owned corpus against one competitor corpus
OneCompetitor ==
    /\ Reported
    /\ Len(gap_call[1].competitor_entities) = 1
    /\ gap_call[1].competitor_entities[1] \in DOMAIN entity_documents

ReportedTerms == {report[1].top_gaps[a].term : a \in 1..Len(report[1].top_gaps)}

OwnedTerms == SeqToSet(Analyze(CallTexts[1]))
CompetitorTerms == SeqToSet(Analyze(CallTexts[2]))

\* the features with a positive gap for the one competitor
PositiveGapTerms ==
    LET fit == FitTransform(CallTexts)
    IN  {fit.feature_names[j] : j \in
            {k \in 1..Len(fit.feature_names) : fit.matrix[2][k] > fit.matrix[1][k]}}

\* the scenario of the claim and what it expects of the report
ScenarioHolds ==
    (/\ CallTexts = << <<"r","u","n","n","i","n","g"," ","s","h","o","e","s"," ","c","o","m","f","o","r","t">>,
                       <<"r","u","n","n","i","n","g"," ","s","h","o","e","s"," ","c","o","m","f","o","r","t"," ","t","r","a","i","l"," ","d","u","r","a","b","i","l","i","t","y">> >>
     /\ gap_call[1].top_gaps = DefaultTopGaps)
    => /\ {<<"t","r","a","i","l">>, <<"d","u","r","a","b","i","l","i","t","y">>} \subseteq ReportedTerms
       /\ ReportedTerms \cap {<<"r","u","n","n","i","n","g">>, <<"s","h","o","e","s">>, <<"c","o","m","f","o","r","t">>} = {}

\* C7 as stated: against one competitor, every term of the competitor's
\* text that is not in the owned text is reported when at most top_gaps
\* such terms exist; no term absent from the competitor's text is reported.
C7_CompetitorOnlyTermsReported ==
    OneCompetitor =>
        /\ Cardinality(CompetitorTerms \ OwnedTerms) <= gap_call[1].top_gaps
               => (CompetitorTerms \ OwnedTerms) \subseteq ReportedTerms
        /\ ReportedTerms \subseteq CompetitorTerms
        /\ ScenarioHolds

\* C7: against one competitor, every term of the competitor's text that is
\* not in the owned text has a positive gap, and all of them are reported
\* when at most top_gaps terms have a positive gap; no term absent from the
\* competitor's text is reported; the scenario of the claim holds.
C7_CompetitorOnlyTermsWithinTopGaps ==
    OneCompetitor =>
        \A positive \in {PositiveGapTerms}, only \in {CompetitorTerms \ OwnedTerms} :
        /\ only \subseteq positive
        /\ Cardinality(positive) <= gap_call[1].top_gaps => only \subseteq ReportedTerms
        /\ ReportedTerms \subseteq CompetitorTerms
        /\ ScenarioHolds

\* the scenario of the claim has been analysed and reports trail
C7_Witness ==
    /\ OneCompetitor
    /\ CallTexts = << <<"r","u","n","n","i","n","g"," ","s","h","o","e","s"," ","c","o","m","f","o","r","t">>,
                      <<"r","u","n","n","i","n","g"," ","s","h","o","e","s"," ","c","o","m","f","o","r","t"," ","t","r","a","i","l"," ","d","u","r","a","b","i","l","i","t","y">> >>
    /\ gap_call[1].top_gaps = DefaultTopGaps
    /\ <<"t","r","a","i","l">> \in ReportedTerms

\* ---- the store across restarts and insertions: C11 ..

RECURSIVE LogUrls(_)
LogUrls(log) == IF log = <<>> THEN <<>> ELSE <<Head(log).url>> \o LogUrls(Tail(log))

\* the URLs whose crawl returned a document, in the order of the list
StoredUrls(l) == LogUrls(SelectSeq(l.log, LAMBDA e : e.result = "stored"))

\* the loop was not interrupted by the user
NotInterrupted(l) ==
    /\ l.pc # "aborted"
    /\ \A k \in 1..Len(l.log) : l.log[k].result # "interrupted"

\* C12: a crawl that raises does not stop the loop: unless the user
\* interrupts it, the loop attempts the URLs of its list in list order, each
\* position once, to the end, whatever failed before; and the documents in
\* the store, or in the entity's list, are those of the URLs whose crawl
\* returned.
C12_FailuresSkipped ==
    loop # <<>> =>
        LET l == loop[1]
        IN  /\ Len(l.log) <= Len(l.urls)
            /\ l.log = AsSeq([k \in 1..Len(l.log) |->
                            [url |-> l.urls[k], result |-> l.log[k].result]])
            /\ NotInterrupted(l) =>
                   /\ Len(l.log) = l.i - 1
                   /\ l.pc = "done" => Len(l.log) = Len(l.urls)
            /\ IF l.kind = "entity"
               THEN /\ documents = NoDocuments
                    /\ AsSeq([k \in 1..Len(l.documents) |-> l.documents[k].url])
                           = StoredUrls(l)
                    /\ l.pc = "done" /\ NotInterrupted(l) =>
                           entity_documents[l.entity.name] = l.documents
               ELSE /\ l.documents = <<>>
                    /\ DOMAIN documents = {GenerateDocId(u) : u \in SeqToSet(StoredUrls(l))}

\* a loop has ended in which the crawl of the first URL raised and the crawl
\* of the second returned a document
C12_Witness ==
    /\ loop # <<>>
    /\ loop[1].pc = "done"
    /\ Len(loop[1].log) = 2
    /\ loop[1].log[1].result \in CrawlErrors
    /\ loop[1].log[2].result = "stored"
    /\ loop[1].urls[1] # loop[1].urls[2]
    /\ loop[1].kind # "entity"
    /\ Cardinality(DOMAIN documents) = 1

\* the two documents have the same URL and the same text
SameContent(d, e) ==
    /\ d.url = e.url
    /\ d.title = e.title
    /\ d.clean_text = e.clean_text
    /\ d.headings = e.headings

\* the document being added is the one document of the store, crawled anew
\* with the same content
IsReAddOfOnly ==
    /\ IsAdd
    /\ DOMAIN documents = {doc[1].doc_id}
    /\ SameContent(doc[1], documents[doc[1].doc_id])

C14_NoDocIdLost ==
    [][/\ DOMAIN documents \subseteq DOMAIN documents'
       /\ IsAdd =>
            /\ DOMAIN documents' = DOMAIN documents \cup {doc[1].doc_id}
            /\ SameContent(documents'[doc[1].doc_id], doc[1])
            /\ doc[1].doc_id \notin DOMAIN documents =>
                   Cardinality(DOMAIN documents') = Cardinality(DOMAIN documents) + 1
            /\ doc[1].doc_id \in DOMAIN documents =>
                   Cardinality(DOMAIN documents') = Cardinality(DOMAIN documents)]_vars

\* of two stored documents one has been replaced by a later add
C14_Witness ==
    /\ Cardinality(DOMAIN documents) = 2
    /\ \E id \in DOMAIN documents :
           documents[id].last_updated > documents[id].first_seen

\* C18: add_document changes nothing but the entry under the doc_id of the
\* added document: every other stored document is left as it was, keyword
\* list included.
C18_OtherDocumentsUntouched ==
    [][IsAdd =>
          \A id \in DOMAIN documents \ {doc[1].doc_id} :
              /\ id \in DOMAIN documents'
              /\ documents'[id] = documents[id]]_vars

\* a stored document's keyword list is no longer the one the extraction
\* gives against the store as it is now: the corpus has grown since
C18_Witness ==
    /\ Cardinality(DOMAIN documents) = 2
    /\ \E id \in DOMAIN documents :
           /\ documents[id].keywords.list # <<>>
           /\ documents[id].keywords.list # ExtractKeywords(documents[id], documents, TopN)

\* the idf _extract_keywords uses for a word of the document being added,
\* as <<total, count>> standing for log(total / count)
IdfUsed(word) == IdfOf(CalculateIdf(documents), documents, word)

\* the stored documents, after the step, whose text holds the word as one
\* of its whitespace-separated tokens
HoldingAfter(word) ==
    {id \in DOMAIN documents' : word \in SeqToSet(Split(DocText(documents'[id])))}

\* C15 as stated: for every token of the added document that its own text
\* holds, the idf used is log(total / containing) with both numbers counted
\* over the store with the added document in it.
C15_IdfCountsInsertedDocument ==
    [][IsAdd =>
          \A w \in SeqToSet(KeywordWords(DocText(doc[1]))) \cap SeqToSet(Split(DocText(doc[1]))) :
              IdfUsed(w)[1] * Cardinality(HoldingAfter(w))
                  = Cardinality(DOMAIN documents') * IdfUsed(w)[2]]_vars

\* the stored documents whose text holds the word after the normalisation
\* of _extract_keywords
HoldingNormalised(word) ==
    {id \in DOMAIN documents : word \in SeqToSet(KeywordWords(DocText(documents[id])))}

\* C16 as stated: every token scored for the added document is lower-case,
\* stripped of punctuation and of three characters or more, and the
\* document frequency behind its idf is the number of stored documents
\* whose text holds that token after the same normalisation.
C16_SameTokensForTfAndDf ==
    [][IsAdd =>
          \A w \in SeqToSet(KeywordWords(DocText(doc[1]))) :
              /\ Len(w) >= 3
              /\ Lower(w) = w
              /\ Strip(w, Punct) = w
              /\ HoldingNormalised(w) # {} =>
                     /\ w \in DOMAIN CalculateIdf(documents)
                     /\ CalculateIdf(documents)[w][2] = Cardinality(HoldingNormalised(w))]_vars

\* the tokens of the document being added, as _extract_keywords counts them
AddedWords == KeywordWords(DocText(doc[1]))

\* where a token first occurs among the tokens of the text
FirstPos(words, w) == CHOOSE i \in 1..Len(words) :
                          words[i] = w /\ \A j \in 1..(i - 1) : words[j] # w

\* for each different token of the document being added, in order of
\* first occurrence: where it first occurs and the tf x idf it is given
AddedScores ==
    LET idf_scores == CalculateIdf(documents)
        keys == Distinct(AddedWords)
    IN  AsSeq([k \in 1..Len(keys) |->
            LET idf == IdfOf(idf_scores, documents, keys[k])
            IN  [word |-> keys[k],
                 pos |-> FirstPos(AddedWords, keys[k]),
                 score |-> [count |-> CountOf(AddedWords, keys[k]),
                            a |-> idf[1], b |-> idf[2]]]])

\* token x goes before token y: its score is higher, or the same with an
\* earlier first occurrence in the text
RanksBefore(x, y) ==
    /\ ScoreGE(x.score, y.score)
    /\ ScoreGE(y.score, x.score) => x.pos < y.pos

\* C17: the keyword list stored by add_document holds the TopN tokens of
\* the document with the highest tf x idf (all of them when there are
\* fewer), in non-increasing order of score, tokens of equal score in the
\* order of their first occurrence in the text.
C17_TopByScoreTiesInTextOrder ==
    [][IsAdd =>
          \A scored \in {AddedScores}, kw \in {documents'[doc[1].doc_id].keywords.list} :
          \A at \in {AsSeq([i \in 1..Len(kw) |->
                        IF \E k \in 1..Len(scored) : scored[k].word = kw[i]
                        THEN CHOOSE k \in 1..Len(scored) : scored[k].word = kw[i]
                        ELSE 0])} :
              /\ \A i \in 1..Len(kw) : at[i] # 0
              /\ Len(kw) = IF Len(scored) < TopN THEN Len(scored) ELSE TopN
              /\ \A i, j \in 1..Len(kw) :
                     i < j => RanksBefore(scored[at[i]], scored[at[j]])
              /\ \A k \in (1..Len(scored)) \ SeqToSet(at) : \A i \in 1..Len(kw) :
                     RanksBefore(scored[at[i]], scored[k])]_vars

\* one stored document has more than TopN tokens and TopN keywords, the
\* first of them its first token; another has its keywords in an order
\* that is not the order of the text
C17_Witness ==
    /\ \E id \in DOMAIN documents :
           LET words == KeywordWords(DocText(documents[id]))
           IN  /\ Cardinality(SeqToSet(words)) > TopN
               /\ Len(documents[id].keywords.list) = TopN
               /\ documents[id].keywords.list[1] = words[1]
    /\ \E id \in DOMAIN documents :
           LET keys == Distinct(KeywordWords(DocText(documents[id])))
           IN  /\ Len(keys) >= 2
               /\ Len(documents[id].keywords.list) = Len(keys)
               /\ documents[id].keywords.list # keys

\* the gap of every feature with a positive gap for a competitor of the
\* call that has documents, as <<competitor, term, gap>>
PositiveGaps(fit) ==
    LET comps == gap_call[1].competitor_entities
    IN  {p \in {<<comps[i], fit.feature_names[j], fit.matrix[i + 1][j] - fit.matrix[1][j]>> :
                    i \in {c \in 1..Len(comps) : comps[c] \in DOMAIN entity_documents},
                    j \in 1..Len(fit.feature_names)} : p[3] > 0}

\* C19: a report holds at most top_gaps entries over all competitors, in
\* non-increasing order of gap_score, total_gaps_identified is their
\* number, and no positive gap that is left out is larger than one that is
\* kept.
C19_TopGapsOverall ==
    Reported =>
        \A fit \in {FitTransform(CallTexts)}, gaps \in {report[1].top_gaps} :
        \A kept \in {{<<gaps[a].competitor, gaps[a].term, gaps[a].gap_score>> : a \in 1..Len(gaps)}},
           positive \in {PositiveGaps(fit)} :
            /\ Len(gaps) <= gap_call[1].top_gaps
            /\ report[1].total_gaps_identified = Len(gaps)
            /\ \A a \in 1..(Len(gaps) - 1) : gaps[a].gap_score >= gaps[a + 1].gap_score
            /\ kept \subseteq positive
            /\ \A p \in positive \ kept :
                   /\ Len(gaps) = gap_call[1].top_gaps
                   /\ \A q \in kept : p[3] <= q[3]

\* a report over two competitors with documents that holds gaps of both,
\* is full, and leaves a positive gap out
C19_Witness ==
    /\ Reported
    /\ Len(gap_call[1].competitor_entities) = 2
    /\ Len(report[1].top_gaps) = gap_call[1].top_gaps
    /\ \E a, b \in 1..Len(report[1].top_gaps) :
           /\ report[1].top_gaps[a].competitor # report[1].top_gaps[b].competitor
           /\ report[1].top_gaps[a].gap_score > report[1].top_gaps[b].gap_score
    /\ PositiveGaps(FitTransform(CallTexts)) \
           {<<report[1].top_gaps[a].competitor, report[1].top_gaps[a].term,
              report[1].top_gaps[a].gap_score>> : a \in 1..Len(report[1].top_gaps)} # {}

\* ---- gap analysis without sklearn: C20

\* per word of the competitor documents, its competitor average and its
\* brand average, given the scores of the documents
AveragesOf(competitor_scores, brand_scores) ==
    {<<w, AvgScore(competitor_scores, w), AvgScore(brand_scores, w)>> :
        w \in UNION {DOMAIN competitor_scores[i] : i \in 1..Len(competitor_scores)}}

\* per word of the competitor documents of a call, its competitor average
\* and its brand average
Averages(call) ==
    AveragesOf(TfIdfScores(AllDocsTokens(call.competitor_docs)),
               TfIdfScores(AllDocsTokens(call.brand_docs)))

\* C20: the returned terms are different words of the competitor
\* vocabulary, at most top_k of them, each with a competitor average above
\* 0.01 and a brand average below half of it, in non-increasing order of
\* competitor average - brand average; a word that meets the two
\* conditions is left out only when top_k terms are returned, none of them
\* with a smaller difference; no competitor documents give an empty list,
\* and no brand documents give a brand average of 0 for every word.
C20_TopGapTermsOfCompetitorVocabulary ==
    simple_gaps # <<>> =>
        \A call \in {simple_gaps[1]} :
        \A terms \in {call.gap_terms}, avgs \in {Averages(call)} :
        \A flagged \in {{p \in avgs : p[2] > Scale \div 100 /\ 2 * p[3] < p[2]}} :
        \A kept \in {{p \in flagged : p[1] \in SeqToSet(terms)}} :
            /\ Len(terms) <= call.top_k
            /\ \A a, b \in 1..Len(terms) : terms[a] = terms[b] => a = b
            /\ SeqToSet(terms) = {p[1] : p \in kept}
            /\ \A a \in 1..(Len(terms) - 1) :
                   \A p, q \in kept :
                       p[1] = terms[a] /\ q[1] = terms[a + 1] => p[2] - p[3] >= q[2] - q[3]
            /\ \A p \in flagged \ kept :
                   /\ Len(terms) = call.top_k
                   /\ \A q \in kept : p[2] - p[3] <= q[2] - q[3]
            /\ call.competitor_docs = <<>> => terms = <<>>
            /\ call.brand_docs = <<>> => \A p \in avgs : p[3] = 0

\* a call with competitor and brand documents that returns top_k terms,
\* leaves out a word that meets the two conditions, and leaves out a word
\* whose brand average is half its competitor average or more
C20_Witness ==
    /\ simple_gaps # <<>>
    /\ simple_gaps[1].brand_docs # <<>>
    /\ simple_gaps[1].gap_terms # <<>>
    /\ Len(simple_gaps[1].gap_terms) = simple_gaps[1].top_k
    /\ \E p, q \in Averages(simple_gaps[1]) :
           /\ p[1] \notin SeqToSet(simple_gaps[1].gap_terms)
           /\ p[2] > GapThreshold /\ 2 * p[3] < p[2]
           /\ q[1] \notin SeqToSet(simple_gaps[1].gap_terms)
           /\ q[2] > GapThreshold /\ 2 * q[3] >= q[2]

\* ---- the ingest script: C21, C23, C28

\* a step in which ensure_ai_bots_seed ran to its end
IsSeed ==
    \/ ingest_pc = "seed" /\ ingest_pc' = "load"
    \/ ingest_pc = "load" /\ ingest_pc' = "load" /\ bot_csv' # <<>>

\* the non-blank names of a bot table, stripped
BotNames(csv) ==
    IF ~csv.has_bot_column THEN {}
    ELSE {Strip(csv.bots[i][1], {" "}) : i \in {j \in 1..Len(csv.bots) : csv.bots[j] # <<>>}}
         \ {<<>>}

\* the rows of a table that have a name
RowsNamed(table, name) == {i \in 1..Len(table) : table[i].name = name}

\* C21: after ensure_ai_bots_seed every distinct non-blank name of the bot
\* table has exactly one row of ai_bots; a row it inserted, or found with
\* no pattern, has the pattern that matches the escaped name whatever the
\* letter case; every row that was there is still there with its name and
\* bot_id, and with its pattern when it had one; and a call with the table
\* of the call before adds no row.
C21_SeedOncePerName ==
    [][IsSeed =>
        \A names \in {BotNames(bot_csv'[1])} :
            /\ \A n \in names : Cardinality(RowsNamed(ai_bots', n)) = 1
            /\ Len(ai_bots') >= Len(ai_bots)
            /\ \A i \in 1..Len(ai_bots) :
                   /\ ai_bots'[i].name = ai_bots[i].name
                   /\ ai_bots'[i].bot_id = ai_bots[i].bot_id
                   /\ ai_bots[i].pattern.kind # "null" => ai_bots'[i].pattern = ai_bots[i].pattern
                   /\ ai_bots[i].pattern.kind = "null" =>
                          ai_bots'[i].pattern =
                              IF ai_bots[i].name \in names
                              THEN [kind |-> "regex", ci |-> TRUE, text |-> ai_bots[i].name]
                              ELSE ai_bots[i].pattern
            /\ \A i \in (Len(ai_bots) + 1)..Len(ai_bots') :
                   /\ ai_bots'[i].name \in names
                   /\ ai_bots'[i].pattern =
                          [kind |-> "regex", ci |-> TRUE, text |-> ai_bots'[i].name]
                   /\ Search(ai_bots'[i].pattern, Lower(ai_bots'[i].name))
            /\ bot_csv = bot_csv' => ai_bots' = ai_bots
      ]_vars

\* seeded from a table that names GPTBot twice up to blanks, has an empty
\* and a blank cell and names Bot: the row of GPTBot that was there keeps
\* its own pattern and Bot has the default one
C21_Witness ==
    /\ ingest_pc = "load"
    /\ bot_csv # <<>>
    /\ Len(bot_csv[1].bots) = 5
    /\ Len(ai_bots) = 2
    /\ ai_bots[1].name = <<"G","P","T","B","o","t">>
    /\ ai_bots[1].pattern = Literal(FALSE, <<"G","P","T","B","o","t","/">>)
    /\ ai_bots[2].name = <<"B","o","t">>
    /\ ai_bots[2].pattern = SeedPattern(<<"B","o","t">>)

\* C23 as stated: a step of the script that finds no file at bot_csv seeds
\* no bot and goes on to ingest_server_logs, and one that finds no file at
\* log_csv inserts no row and ends the run as a run with no rows does.
C23_MissingCsvNotFatal ==
    [][/\ (ingest_pc = "seed" /\ bot_csv' # <<>> /\ ~bot_csv'[1].exists) =>
              (ai_bots' = ai_bots /\ ingest_pc' = "load")
       /\ (ingest_pc = "load" /\ log_csv' # <<>> /\ ~log_csv'[1].exists) =>
              (crawler_logs' = crawler_logs /\ ingest_pc' = "done")
      ]_vars

\* C28: when ingest_server_logs has iterated some rows of the server log,
\* the tuples it has flushed and the ones it still holds are, in row order,
\* one tuple per row; total is their number; no flushed batch is empty;
\* every flushed batch but the last has exactly batch tuples and the last
\* at most batch; before the end of the rows every flushed batch is full
\* and fewer than batch tuples are held, and after it none is held.
C28_OneTuplePerRowInBatches ==
    (log_csv # <<>> /\ log_csv[1].exists) =>
        \A rows \in {log_csv[1].rows}, tuples \in {Flatten(crawler_logs) \o to_insert} :
            /\ Len(tuples) = Len(rows)
            /\ \A k \in 1..Len(rows) : tuples[k] = RowTuple(patterns, rows[k])
            /\ total = Len(rows)
            /\ \A b \in 1..Len(crawler_logs) :
                   /\ crawler_logs[b] # <<>>
                   /\ Len(crawler_logs[b]) <= batch
                   /\ b < Len(crawler_logs) => Len(crawler_logs[b]) = batch
            /\ ingest_pc = "rows" =>
                   /\ Len(to_insert) < batch
                   /\ \A b \in 1..Len(crawler_logs) : Len(crawler_logs[b]) = batch
            /\ ingest_pc = "done" => to_insert = <<>>

\* a run that is over, having flushed two batches of different rows
C28_Witness ==
    /\ ingest_pc = "done"
    /\ Len(crawler_logs) = 2
    /\ crawler_logs[1] # crawler_logs[2]
    /\ total = 2

\* ------------------------------- stores sharing one path: C22, C24, C25

\* process i constructs its store in this step
IsConstruct(i) ==
    /\ stores[i].pc # "saving"
    /\ stores'[i] # stores[i]
    /\ stores'[i].pc \in {"open", "raised"}
    /\ UNCHANGED disk

\* process i is stopped in this step, in the middle of its save
IsKill(i) == stores[i].pc = "saving" /\ stores'[i] = Stopped

\* C22: a ContentStore constructed on a path with no file is an empty
\* store, not an exception; run() with a missing CSV of URLs has no URL to
\* crawl, with a missing bot table no bot and no interaction, and reaches
\* its crawl loop; load_server_logs returns no path for a missing log.
C22_MissingFilesGiveEmptyResults ==
    /\ \A i \in Processes :
           (~disk.exists /\ stores[i].pc # "none") =>
               stores[i].pc = "open" /\ stores[i].documents = NoDocuments
    /\ \A p \in SeqToSet(prepared) :
           /\ (p.call = "run" /\ p.source = "csv" /\ ~p.files[1].exists) =>
                  p.urls_to_crawl = <<>> /\ p.pc = "crawling"
           /\ (p.call = "run" /\ p.source # "neither" /\ ~p.files[2].exists) =>
                  p.bots = {} /\ p.bot_interactions = <<>> /\ p.pc = "crawling"
           /\ (p.call = "load_server_logs" /\ ~p.files[1].exists) =>
                  p.paths = <<>> /\ p.pc = "returned"

\* the store was constructed with no file at its path, and run() was given
\* a CSV of URLs and a bot table that do not exist
C22_Witness ==
    /\ ~disk.exists
    /\ stores[1].pc = "open"
    /\ prepared # <<>>
    /\ prepared[1].call = "run"
    /\ prepared[1].source = "csv"
    /\ ~prepared[1].files[1].exists
    /\ ~prepared[1].files[2].exists
    /\ prepared[1].pc = "crawling"

C25_TornFileRaisesOnLoad ==
    [][\A i \in Processes :
          /\ IsKill(i) =>
                 /\ CorpusOf(disk'.chunks) = <<>>
                 /\ disk'.chunks # disk.chunks \o stores[i].pending
                 /\ Constructed(disk', now').pc = "raised"
          /\ (\E w \in Processes : disk.writer = w /\ stores[w].pc = "killed") /\ IsConstruct(i)
                 => stores'[i].pc = "raised"]_vars

\* a process was stopped after it had written a part of a corpus of one
\* document over a file that held one, and the other process, constructing
\* its store after that, has raised
C25_Witness ==
    /\ disk.writer = 1
    /\ stores[1].pc = "killed"
    /\ Len(disk.chunks) = 2
    /\ stores[2].pc = "raised"

\* ------------------------------------------------- keyword gaps: C26

\* the keyword lists of the documents of an entity, whatever they hold
KeywordsListed(docs, entity_name) ==
    {kw \in UNION {SeqToSet(docs[id].keywords.list) : id \in DOMAIN docs} :
        \E id \in DOMAIN docs :
            docs[id].entity_name = entity_name /\ kw \in SeqToSet(docs[id].keywords.list)}

\* C26: get_keyword_gaps returns, for each listed competitor, exactly the
\* keywords that are in the keyword list of some document of the competitor
\* and of no document of the client, each once; a competitor with no such
\* keyword has no key, and there is no other key.
C26_KeywordGapsAreCompetitorOnly ==
    [][keyword_gaps' # keyword_gaps =>
          \A call \in SeqToSet(keyword_gaps') :
              \A docs \in {stores[call.store].documents} :
                  /\ DOMAIN call.gaps \subseteq SeqToSet(call.competitors)
                  /\ \A c \in SeqToSet(call.competitors) :
                         \A expected \in {KeywordsListed(docs, c) \ KeywordsListed(docs, call.client)} :
                             /\ c \in DOMAIN call.gaps <=> expected # {}
                             /\ c \in DOMAIN call.gaps =>
                                    /\ SeqToSet(call.gaps[c]) = expected
                                    /\ Len(call.gaps[c]) = Cardinality(expected)
                                    /\ SeqToSet(call.gaps[c]) \cap KeywordsListed(docs, call.client) = {}
      ]_vars

\* a call with two competitors, one whose documents share a keyword with the
\* client's and have others, and one with no document
C26_Witness ==
    /\ keyword_gaps # <<>>
    /\ keyword_gaps[1].client = "Nike"
    /\ keyword_gaps[1].competitors = <<"Adidas", "Puma">>
    /\ DOMAIN keyword_gaps[1].gaps = {"Adidas"}
    /\ KeywordsListed(stores[1].documents, "Nike")
           \cap KeywordsListed(stores[1].documents, "Adidas") # {}
    /\ SeqToSet(keyword_gaps[1].gaps["Adidas"])
           = KeywordsListed(stores[1].documents, "Adidas")
                 \ KeywordsListed(stores[1].documents, "Nike")

\* ------------------------------------------ priorities of gap terms: C27

\* High before Medium before Low
Rank(priority) == IF priority = High THEN 3 ELSE IF priority = Medium THEN 2 ELSE 1

\* C27: classify_and_prioritize_gaps returns its entries ordered by
\* priority, the High entries first, then the Medium ones, then the Low
\* ones, and by descending count within one priority.
C27_HighMediumLowByCount ==
    \A call \in SeqToSet(classified) :
        \A i \in 1..Len(call.gaps), j \in 1..Len(call.gaps) :
            i < j =>
                /\ Rank(call.gaps[i].priority) >= Rank(call.gaps[j].priority)
                /\ call.gaps[i].priority = call.gaps[j].priority =>
                       call.gaps[i].count >= call.gaps[j].count

\* ------------------------------------------- extract_response: C29, C30

\* C29: a call of extract_response ends after at most max_retries + 1
\* attempts, 3 with the default, with exactly one record appended to
\* results; an attempt is followed by another only when its status is
\* 'failed', never after a timeout or another exception.
C29_OneRecordAfterBoundedRetries ==
    [][agent.pc = "attempt" =>
          /\ agent'.attempts <= agent.max_retries + 1
          /\ agent.max_retries = DefaultMaxRetries => agent'.attempts <= 3
          /\ agent'.pc = "attempt" =>
                 /\ agent'.last = "failed"
                 /\ agent'.results = agent.results
                 /\ agent'.attempts = agent.attempts + 1
          /\ agent'.pc = "idle" =>
                 /\ Len(agent'.results) = Len(agent.results) + 1
                 /\ SubSeq(agent'.results, 1, Len(agent.results)) = agent.results
                 /\ agent'.results[Len(agent'.results)].status = agent'.last
          /\ agent'.last \in {"timeout", "error", "success"} => agent'.pc = "idle"
      ]_vars

\* a call with the default max_retries has ended after three failed
\* attempts, and one record was appended for it to the record of the call
\* before
C29_Witness ==
    /\ agent.pc = "idle"
    /\ agent.attempts = DefaultMaxRetries + 1
    /\ Len(agent.results) = 2
    /\ agent.results[2].status = "failed"

\* the messages with which an extractor, or extract_response itself,
\* reports that it has no answer
FailureMessages ==
    {"Could not extract answer", "Could not send prompt", "Could not find input box",
     "Could not submit prompt", "Unknown LLM"}

\* C30: a record appended by extract_response has status 'success' only
\* when its answer is extracted text: no record of a failure message has
\* it, and an attempt is never the last one of its call with a failure
\* message while retries remain.
C30_FailureMessagesCountAsFailed ==
    [][agent.pc = "attempt" /\ agent'.pc = "idle" =>
          \A record \in {agent'.results[Len(agent'.results)]} :
              /\ record.status = "success" => record.answer \notin FailureMessages
              /\ record.answer \in FailureMessages =>
                     /\ record.status = "failed"
                     /\ agent.retry_count >= agent.max_retries
      ]_vars

=========================================================================
